---- MODULE Spec2Model ----
(***************************************************************************)
(* A model of the tokencount counting engine: the frozen hash table        *)
(* (build.rs build_frozen_table, src/frozen.rs lookups), the double-array  *)
(* trie (build.rs build_claude_trie, src/claude.rs), the tiktoken BPE      *)
(* counter (src/tiktoken.rs) and the HF counter (src/bpe.rs).              *)
(*                                                                         *)
(* Byte strings are tuples of byte values (<<97, 98>> is "ab").            *)
(* A u64 is a tuple of four 16-bit limbs, least significant first, since   *)
(* the checker's integers are 32 bits wide.                                *)
(* Option<T> is <<>> for None and <<v>> for Some(v).                       *)
(***************************************************************************)
EXTENDS Integers, Sequences, FiniteSets, TLC

(***************************************************************************)
(* Bounds of the model.                                                    *)
(***************************************************************************)
\* Longest sequence of entries handed to build_frozen_table.
MaxEntries == 3
\* Number of byte values: bytes are 0..ByteSpan-1 (256 in the source, where
\* build_claude_trie reserves `b + 256` cells for the children of a node).
ByteSpan == 4
\* Cells the double array is given beyond what is in use (512 in the
\* source: `num_nodes + 512`, `max_pos + 512`).
Slack == 2
\* Largest vocabulary handed to build_claude_trie.
MaxVocab == 4
\* Longest text, in bytes, handed to DATrie::count_tokens.
MaxText == 3
CorruptCells == 1
MaxPiece == 4
MaxPostAdd == 1
MaxBpeText == 2
MaxChunk == 5
MaxConcat == 2
MaxInputs == 3
Threads == 2
MaxSteps == 2
MaxPtText == 3
\* 512 and 256 in bpe.rs, brought down to the size of the model's chunks
ChunkLimit == 4
TargetChunk == 2

VARIABLES
    \* build_frozen_table: its arguments, its locals, the emitted blob
    keys, values, slot_size, entry_i, slots, string_pool, table,
    \* the runtime lookup in progress on the emitted blob (None: no call)
    lookup,
    \* build_claude_trie: the vocabulary, the in-memory trie, the double
    \* array under construction, the BFS queue, the emitted trie.bin
    vocab, token_i, node_children, node_terminal, base, check, occupied,
    da_pos, queue, trie_pc, trie_bin,
    \* DATrie::count_tokens: its argument, its locals, its return value
    text, pos, count, count_pc, result,
    \* TiktokenTokenizer: the embedded rank table
    tk_data,
    \* TiktokenTokenizer::bpe_count: its argument, its locals (tk_count is
    \* the local `count`), its return value, and the merges done so far
    piece, parts, next, prev, alive, gen, heap, tk_count, bpe_pc, bpe_result,
    merges,
    \* TiktokenTokenizer::count_tokens: its argument and its return value
    tk_text, tk_result,
    \* HfTokenizer: the tokenizer from_frozen built, the argument of
    \* count_tokens and its return value
    hf, hf_text, hf_result,
    \* HfTokenizer::bpe_count: the initial tokens of its chunk, the path it
    \* took and its return value; bpe_merge_count run once over the whole
    \* of the initial tokens: its locals, its return value, and the token
    \* positions its merges have joined across
    hm_initial, hm_path, hm_count, hm_st, hm_pc, hm_single, hm_joins,
    \* DATrie::count_tokens called on a, on b and on a + b: the two texts
    \* and the values returned so far
    cat_a, cat_b, cat_counts,
    \* main: the inputs, the count_tokens call of each input (its position
    \* in find_iter and its local `total`), the collected counts
    par_inputs, par_tasks, par_counts,
    \* build_frozen_models and main: the artifacts in TOKEN_COUNT_MODELS
    \* (None: the variable is not set), the constants of embedded_models.rs,
    \* model_names, the tokenizers loaded, the error main exits with
    sel_artifacts, sel_embedded, sel_names, sel_tokenizers, sel_error, sel_pc,
    \* build_hf_frozen: the tokenizer.json it reads, the blob it returns
    \* (None: none yet, or the build has panicked)
    hb_json, hb_blob, hb_pc,
    \* byte_to_char_table: its locals `table` (the entries written so far),
    \* `n` and the loop variable `b`
    bl_table, bl_n, bl_b,
    \* apply_pre_tokenizer: its arguments, the number of steps applied, the
    \* local `chunks` and the chunks before the last step
    pt_steps, pt_text, pt_k, pt_chunks, pt_prev

frozenVars == <<keys, values, slot_size, entry_i, slots, string_pool, table,
                lookup>>

buildVars == <<vocab, token_i, node_children, node_terminal, base, check,
               occupied, da_pos, queue, trie_pc, trie_bin>>
countVars == <<text, pos, count, count_pc, result>>
trieVars == <<buildVars, countVars>>

bpeVars == <<piece, parts, next, prev, alive, gen, heap, tk_count, bpe_pc,
             bpe_result, merges>>
tiktokenVars == <<tk_data, bpeVars>>

tkCountVars == <<tk_text, tk_result>>
hfVars == <<hf, hf_text, hf_result>>

hfMergeVars == <<hm_initial, hm_path, hm_count, hm_st, hm_pc, hm_single,
                 hm_joins>>

catVars == <<cat_a, cat_b, cat_counts>>
parVars == <<par_inputs, par_tasks, par_counts>>
selVars == <<sel_artifacts, sel_embedded, sel_names, sel_tokenizers,
             sel_error, sel_pc>>
hbVars == <<hb_json, hb_blob, hb_pc>>
blVars == <<bl_table, bl_n, bl_b>>
ptVars == <<pt_steps, pt_text, pt_k, pt_chunks, pt_prev>>

\* The variables of the scenarios that call the tokenizers and the builder.
callVars == <<hfMergeVars, catVars, parVars, selVars, hbVars, blVars,
              ptVars>>

vars == <<frozenVars, trieVars, tiktokenVars, tkCountVars, hfVars, callVars>>

\* What the steps of one component leave alone.
OthersThanFrozen == <<trieVars, tiktokenVars, tkCountVars, hfVars, callVars>>
OthersThanTrie == <<frozenVars, tiktokenVars, tkCountVars, hfVars, callVars>>
OthersThanTiktoken == <<frozenVars, trieVars, tkCountVars, hfVars, callVars>>
OthersThanHf == <<frozenVars, trieVars, tiktokenVars, tkCountVars, callVars>>
OthersThanHfMerge ==
    <<frozenVars, trieVars, tiktokenVars, tkCountVars,
      catVars, parVars, selVars, hbVars, blVars, ptVars>>
OthersThanCat ==
    <<frozenVars, tiktokenVars, tkCountVars, hfVars,
      hfMergeVars, parVars, selVars, hbVars, blVars, ptVars>>
OthersThanPar ==
    <<frozenVars, trieVars, tiktokenVars, tkCountVars, hfVars,
      hfMergeVars, catVars, selVars, hbVars, blVars, ptVars>>
OthersThanSel ==
    <<frozenVars, trieVars, tiktokenVars, tkCountVars, hfVars,
      hfMergeVars, catVars, parVars, hbVars, blVars, ptVars>>
OthersThanHb ==
    <<frozenVars, trieVars, tiktokenVars, tkCountVars, hfVars,
      hfMergeVars, catVars, parVars, selVars, blVars, ptVars>>
OthersThanBl ==
    <<frozenVars, trieVars, tiktokenVars, tkCountVars, hfVars,
      hfMergeVars, catVars, parVars, selVars, hbVars, ptVars>>
OthersThanPt ==
    <<frozenVars, trieVars, tiktokenVars, tkCountVars, hfVars,
      hfMergeVars, catVars, parVars, selVars, hbVars, blVars>>

None == <<>>
Some(v) == <<v>>

Min(a, b) == IF a < b THEN a ELSE b
Max(a, b) == IF a < b THEN b ELSE a

\* Sequences over S of length 0..n.
SeqUpTo(S, n) == UNION {[1..k -> S] : k \in 0..n}

\* s[from..to) with 0-based offsets, as a Rust slice.
Slice(s, from, to) == SubSeq(s, from + 1, to)

(***************************************************************************)
(* 64-bit arithmetic on four 16-bit limbs.                                 *)
(***************************************************************************)
LIMB == 2 ^ 16

\* Bit k (given by its weight, a power of two) of a ^ b.
XorBit(a, b, k) == k * ((((a \div k) % 2) + ((b \div k) % 2)) % 2)

XorNibble(a, b, k) ==
    (XorBit(a, b, k) + XorBit(a, b, 2 * k))
    + (XorBit(a, b, 4 * k) + XorBit(a, b, 8 * k))

Xor(a, b) ==
    (XorNibble(a, b, 1) + XorNibble(a, b, 16))
    + (XorNibble(a, b, 256) + XorNibble(a, b, 4096))

\* h ^= b as u64 (b is one byte: only the low limb changes).
XorByte(h, b) == [h EXCEPT ![1] = Xor(h[1], b)]

\* h.wrapping_mul(p): schoolbook product of the limbs, cut at 64 bits.
\* Every limb of FNV_PRIME is below 2^9, so no column overflows 31 bits.
WrappingMul(h, p) ==
    LET c1 == h[1] * p[1]
        c2 == (h[1] * p[2]) + (h[2] * p[1]) + (c1 \div LIMB)
        c3 == (h[1] * p[3]) + (h[2] * p[2]) + (h[3] * p[1]) + (c2 \div LIMB)
        c4 == (h[1] * p[4]) + (h[2] * p[3]) + (h[3] * p[2]) + (h[4] * p[1])
              + (c3 \div LIMB)
    IN  <<c1 % LIMB, c2 % LIMB, c3 % LIMB, c4 % LIMB>>

\* h | 1
OrOne(h) == [h EXCEPT ![1] = h[1] + (1 - (h[1] % 2))]

\* 0xcbf29ce484222325
FNV_OFFSET == <<8997, 33826, 40164, 52210>>
\* 0x100000001b3
FNV_PRIME == <<435, 0, 256, 0>>

ZeroHash == <<0, 0, 0, 0>>

\* The loop `for &b in data { h ^= b; h = h.wrapping_mul(FNV_PRIME) }`.
\* A u64: four limbs, each below 2^16.
IsU64(h) == \A i \in 1..4 : (h[i] >= 0) /\ (h[i] < LIMB)

RECURSIVE FnvFold(_, _)
FnvFold(h, data) ==
    IF data = <<>> THEN h
    ELSE CASE IsU64(h) ->
             FnvFold(WrappingMul(XorByte(h, Head(data)), FNV_PRIME), Tail(data))

\* build.rs fnv_hash and frozen.rs fnv_hash (the same function twice).
fnv_hash(data) == OrOne(FnvFold(FNV_OFFSET, data))

fnv_hash_pair(a, b) ==
    LET h1 == FnvFold(FNV_OFFSET, a)
        h2 == WrappingMul(XorByte(h1, 0), FNV_PRIME)
    IN  OrOne(FnvFold(h2, b))

fnv_hash_concat(a, b) == OrOne(FnvFold(FnvFold(FNV_OFFSET, a), b))

\* ((h as u128) * (n as u128)) >> 64, for n < 2^15 (the carry out of the
\* top limb).
fast_reduce(h, n) ==
    LET c1 == (h[1] * n) \div LIMB
        c2 == ((h[2] * n) + c1) \div LIMB
        c3 == ((h[3] * n) + c2) \div LIMB
    IN  ((h[4] * n) + c3) \div LIMB

\* (h as usize) & mask, mask = num_slots - 1, num_slots a power of two
\* no larger than 2^16.
LowBits(h, num_slots) == h[1] % num_slots

next_power_of_two(n) ==
    LET RECURSIVE up(_)
        up(p) == IF p >= n THEN p ELSE up(2 * p)
    IN  up(1)

div_ceil(a, b) == (a + b - 1) \div b

(***************************************************************************)
(* Frozen table: the builder (build.rs) and the runtime lookups            *)
(* (src/frozen.rs).  A slot is the record of its four fields; the empty    *)
(* slot is the all-zero record the builder's vec![0u8; ..] holds.          *)
(***************************************************************************)
MAP_SLOT == 18
SET_SLOT == 14

EmptySlot == [hash |-> ZeroHash, key_off |-> 0, key_len |-> 0, value |-> 0]

\* The slot count without the third of slack.
NumSlotsWithoutSlack(num_entries) == Max(next_power_of_two(num_entries), 4)

\* (num_entries * 4).div_ceil(3).next_power_of_two().max(4)
NumSlots(num_entries) ==
    Max(next_power_of_two(div_ceil(num_entries * 4, 3)), 4)

\* First index the builder tries for a key of hash h.
BuildStartIdx(h, num_slots) == LowBits(h, num_slots)

\* The builder's probing loop: the first slot at or after idx (cyclically)
\* whose hash field reads zero.  Slots are numbered from 0.
RECURSIVE FirstEmpty(_, _, _)
FirstEmpty(slots_, num_slots, idx) ==
    IF slots_[idx + 1].hash = ZeroHash THEN idx
    ELSE FirstEmpty(slots_, num_slots, (idx + 1) % num_slots)

\* One iteration of `for (i, key) in keys.iter().enumerate()`: the slots
\* after entry i (1-based here) is written.  vals is <<>> for a set.
InsertSlots(slots_, pool, key, i, vals, num_slots) ==
    LET h == fnv_hash(key)
        key_off == Len(pool)
        key_len == Len(key) % (2 ^ 16)
        idx == FirstEmpty(slots_, num_slots, BuildStartIdx(h, num_slots))
        value == IF vals = <<>> THEN 0 ELSE vals[i]
    IN  [slots_ EXCEPT ![idx + 1] =
            [hash |-> h, key_off |-> key_off, key_len |-> key_len,
             value |-> value]]

\* The emitted blob: header, slots, string pool.
EmitTable(num_slots, num_entries, slots_, pool) ==
    [num_slots |-> num_slots, num_entries |-> num_entries,
     string_pool_len |-> Len(pool), slots |-> slots_, string_pool |-> pool]

\* build_frozen_table as one function: every insertion, then the blob.
RECURSIVE BuildLoop(_, _, _, _, _, _)
BuildLoop(keys_, vals, i, slots_, pool, num_slots) ==
    IF i > Len(keys_) THEN EmitTable(num_slots, Len(keys_), slots_, pool)
    ELSE BuildLoop(keys_, vals, i + 1,
                   InsertSlots(slots_, pool, keys_[i], i, vals, num_slots),
                   pool \o keys_[i], num_slots)

build_frozen_table(keys_, vals) ==
    LET num_slots == NumSlots(Len(keys_))
    IN  BuildLoop(keys_, vals, 1, [s \in 1..num_slots |-> EmptySlot], <<>>,
                  num_slots)

\* The stored key of a slot: table[string_pool_off + key_off ..][..key_len].
Stored(t, slot) == Slice(t.string_pool, slot.key_off, slot.key_off + slot.key_len)

\* First index the runtime probes for a key of hash h.
LookupStartIdx(h, num_slots) == fast_reduce(h, num_slots)

\* `idx += 1; if idx == num_slots { idx = 0; }`
NextIdx(idx, num_slots) == IF idx + 1 = num_slots THEN 0 ELSE idx + 1

ConcatKeyMatches(stored, a, b) ==
    /\ Slice(stored, 0, Len(a)) = a
    /\ Slice(stored, Len(a), Len(stored)) = b

RECURSIVE GetConcatLoop(_, _, _, _, _, _)
GetConcatLoop(t, h, a, b, idx, n) ==
    IF n = 0 THEN None
    ELSE LET slot == t.slots[idx + 1]
         IN  IF slot.hash = ZeroHash THEN None
             ELSE IF /\ slot.hash = h
                     /\ slot.key_len = Len(a) + Len(b)
                     /\ ConcatKeyMatches(Stored(t, slot), a, b)
                  THEN Some(slot.value)
                  ELSE GetConcatLoop(t, h, a, b,
                                     NextIdx(idx, t.num_slots), n - 1)

frozen_map_get_concat(t, a, b) ==
    LET h == fnv_hash_concat(a, b)
    IN  GetConcatLoop(t, h, a, b, LookupStartIdx(h, t.num_slots),
                      t.num_slots)

\* A pair lookup that forgets the NUL separator: it hashes and compares
\* left || right.
get_pair_without_separator(t, left, right) ==
    frozen_map_get_concat(t, left, right)

PairKeyMatches(stored, left, right) ==
    /\ Slice(stored, 0, Len(left)) = left
    /\ stored[Len(left) + 1] = 0
    /\ Slice(stored, Len(left) + 1, Len(stored)) = right

RECURSIVE GetPairLoop(_, _, _, _, _, _)
GetPairLoop(t, h, left, right, idx, n) ==
    IF n = 0 THEN None
    ELSE LET slot == t.slots[idx + 1]
         IN  IF slot.hash = ZeroHash THEN None
             ELSE IF /\ slot.hash = h
                     /\ slot.key_len = Len(left) + 1 + Len(right)
                     /\ PairKeyMatches(Stored(t, slot), left, right)
                  THEN Some(slot.value)
                  ELSE GetPairLoop(t, h, left, right,
                                   NextIdx(idx, t.num_slots), n - 1)

frozen_map_get_pair(t, left, right) ==
    LET h == fnv_hash_pair(left, right)
    IN  GetPairLoop(t, h, left, right, LookupStartIdx(h, t.num_slots),
                    t.num_slots)

RECURSIVE ContainsLoop(_, _, _, _, _)
ContainsLoop(t, h, key, idx, n) ==
    IF n = 0 THEN FALSE
    ELSE LET slot == t.slots[idx + 1]
         IN  IF slot.hash = ZeroHash THEN FALSE
             ELSE IF slot.hash = h /\ Stored(t, slot) = key THEN TRUE
                  ELSE ContainsLoop(t, h, key, NextIdx(idx, t.num_slots),
                                    n - 1)

frozen_set_contains(t, key) ==
    LET h == fnv_hash(key)
    IN  ContainsLoop(t, h, key, LookupStartIdx(h, t.num_slots), t.num_slots)

(***************************************************************************)
(* The frozen table as a state machine: the builder's loop, one entry per  *)
(* step, then the emission of the blob, then lookups on the blob.          *)
(***************************************************************************)
\* "ab", "cd", "abcd", "ef", "a", "b" and the pair forms "a\0b", "ab\0cd".
K_a == <<97>>
K_b == <<98>>
K_ab == <<97, 98>>
K_cd == <<99, 100>>
K_ef == <<101, 102>>
K_abcd == <<97, 98, 99, 100>>
K_a0b == <<97, 0, 98>>
K_ab0cd == <<97, 98, 0, 99, 100>>

\* The keys tables are built from, and the arguments lookups are made with.
KeyUniverse == {K_a, K_ab, K_cd, K_abcd, K_a0b, K_ab0cd}
LookupParts == {<<>>, K_a, K_b, K_ab, K_cd, K_ef}

Distinct(seq) == \A i, j \in 1..Len(seq) : i # j => seq[i] # seq[j]

\* build_frozen_map hands the values over, build_frozen_set hands None;
\* the rank of an entry is its position (build.rs: `rank as u32`).
FrozenInit ==
    /\ keys \in {ks \in SeqUpTo(KeyUniverse, MaxEntries) : Distinct(ks)}
    /\ slot_size \in {MAP_SLOT, SET_SLOT}
    /\ values = IF slot_size = MAP_SLOT THEN [i \in 1..Len(keys) |-> i - 1]
                ELSE <<>>
    /\ entry_i = 0
    /\ slots = [s \in 1..NumSlots(Len(keys)) |-> EmptySlot]
    /\ string_pool = <<>>
    /\ table = None
    /\ lookup = None

\* The component is not in use.
FrozenIdle ==
    /\ keys = <<>>
    /\ slot_size = MAP_SLOT
    /\ values = <<>>
    /\ entry_i = 0
    /\ slots = <<>>
    /\ string_pool = <<>>
    /\ table = None
    /\ lookup = None

\* One iteration of the builder's loop over the keys.
InsertEntry ==
    /\ table = None
    /\ entry_i < Len(keys)
    /\ slots' = InsertSlots(slots, string_pool, keys[entry_i + 1],
                            entry_i + 1, values, Len(slots))
    /\ string_pool' = string_pool \o keys[entry_i + 1]
    /\ entry_i' = entry_i + 1
    /\ UNCHANGED <<keys, values, slot_size, table, lookup>>
    /\ UNCHANGED OthersThanFrozen

\* The loop is over: the blob is assembled.
FinishTable ==
    /\ table = None
    /\ entry_i = Len(keys)
    /\ table' = Some(EmitTable(Len(slots), Len(keys), slots, string_pool))
    /\ UNCHANGED <<keys, values, slot_size, entry_i, slots, string_pool,
                   lookup>>
    /\ UNCHANGED OthersThanFrozen

Blob == table[1]

GetConcat(a, b) ==
    /\ table # None /\ slot_size = MAP_SLOT /\ lookup = None
    /\ lookup' = Some([op |-> "get_concat", a |-> a, b |-> b,
                       res |-> frozen_map_get_concat(Blob, a, b)])
    /\ UNCHANGED <<keys, values, slot_size, entry_i, slots, string_pool,
                   table>>
    /\ UNCHANGED OthersThanFrozen

GetPair(left, right) ==
    /\ table # None /\ slot_size = MAP_SLOT /\ lookup = None
    /\ lookup' = Some([op |-> "get_pair", a |-> left, b |-> right,
                       res |-> frozen_map_get_pair(Blob, left, right)])
    /\ UNCHANGED <<keys, values, slot_size, entry_i, slots, string_pool,
                   table>>
    /\ UNCHANGED OthersThanFrozen

SetContains(key) ==
    /\ table # None /\ slot_size = SET_SLOT /\ lookup = None
    /\ lookup' = Some([op |-> "contains", a |-> key, b |-> <<>>,
                       res |-> frozen_set_contains(Blob, key)])
    /\ UNCHANGED <<keys, values, slot_size, entry_i, slots, string_pool,
                   table>>
    /\ UNCHANGED OthersThanFrozen

\* The lookup returns to its caller.
LookupReturn ==
    /\ lookup # None
    /\ lookup' = None
    /\ UNCHANGED <<keys, values, slot_size, entry_i, slots, string_pool,
                   table>>
    /\ UNCHANGED OthersThanFrozen

FrozenNext ==
    \/ InsertEntry
    \/ FinishTable
    \/ \E a, b \in LookupParts : GetConcat(a, b)
    \/ \E a, b \in LookupParts : GetPair(a, b)
    \/ \E k \in KeyUniverse \cup LookupParts : SetContains(k)
    \/ LookupReturn



(***************************************************************************)
(* Claims about the frozen table.                                          *)
(***************************************************************************)
\* The key a lookup asks for: left || 0x00 || right for a pair lookup,
\* a || b for a concatenation lookup, the key itself for a set.
VirtualKey(l) ==
    IF l.op = "get_pair" THEN l.a \o <<0>> \o l.b ELSE l.a \o l.b

Inserted(k) == \E i \in 1..Len(keys) : keys[i] = k

\* What a map holding exactly the inserted entries answers for key k.
MapGet(k) ==
    IF Inserted(k)
    THEN Some(values[CHOOSE i \in 1..Len(keys) : keys[i] = k])
    ELSE None

\* C1: a map laid out by the builder and read by the runtime lookups
\* returns, for every inserted key, the value stored with it.
C1_InsertedKeyReturnsItsValue ==
    (lookup # None /\ slot_size = MAP_SLOT /\ Inserted(VirtualKey(lookup[1])))
        => lookup[1].res = MapGet(VirtualKey(lookup[1]))

\* C2: a key that was not inserted at build time is reported absent by
\* get_pair, get_concat (None) and contains (false).
C2_AbsentKeyIsAbsent ==
    (lookup # None /\ ~Inserted(VirtualKey(lookup[1])))
        => lookup[1].res = IF lookup[1].op = "contains" THEN FALSE ELSE None

\* The hash the lookup l computes.
LookupHash(l) ==
    IF l.op = "get_pair" THEN fnv_hash_pair(l.a, l.b)
    ELSE fnv_hash_concat(l.a, l.b)

\* A pair lookup of an absent key whose concatenation is an inserted key
\* and whose probe sequence starts on a populated slot.
C2_Witness ==
    /\ lookup # None
    /\ lookup[1].op = "get_pair"
    /\ ~Inserted(VirtualKey(lookup[1]))
    /\ Inserted(lookup[1].a \o lookup[1].b)
    /\ Blob.slots[LookupStartIdx(LookupHash(lookup[1]), Blob.num_slots) + 1].hash
          # ZeroHash
    /\ lookup[1].res = None

\* C3: get_concat(a, b) returns what is stored under a || b, get_pair(left,
\* right) what is stored under left || 0x00 || right (absent when nothing
\* is), as in the map {("ab", 0), ("cd", 1), ("abcd", 2)}, where
\* get_concat("ab", "cd") = 2 and get_pair("ab", "cd") is absent.
C3_LookupAnswersForItsVirtualKey ==
    (lookup # None /\ lookup[1].op \in {"get_concat", "get_pair"})
        => lookup[1].res = MapGet(VirtualKey(lookup[1]))

(***************************************************************************)
(* The double-array trie: build_claude_trie (build.rs).                    *)
(* Vec<T> is a function on 0..len-1.  A u32 of `check` is the record of    *)
(* its two bit fields: idx = c & IDX_MASK, term = (c & TERM_BIT != 0).     *)
(***************************************************************************)
IDX_MASK == 2147483647

\* u32::MAX: every bit set.
U32_MAX == [idx |-> IDX_MASK, term |-> TRUE]

\* s as u32 | term
PackCheck(s, term) == [idx |-> s, term |-> term]

VecLen(v) == Cardinality(DOMAIN v)
VecNew(fill, n) == [i \in 0..(n - 1) |-> fill]
\* Vec::resize(n, fill) and Vec::truncate(n)
VecResize(v, n, fill) ==
    [i \in 0..(n - 1) |-> IF i < VecLen(v) THEN v[i] ELSE fill]
VecTruncate(v, n) == [i \in 0..(Min(n, VecLen(v)) - 1) |-> v[i]]

\* node_children[cur].iter().find(|(k, _)| *k == byte): the child index.
FindChild(children, byte) ==
    LET hits == {i \in 1..Len(children) : children[i][1] = byte}
    IN  IF hits = {} THEN None
        ELSE Some(children[CHOOSE i \in hits : \A j \in hits : i <= j][2])

\* The loop over the bytes of one token (build.rs 42-55): t is the pair of
\* node_children and node_terminal, nodes numbered from 0.
RECURSIVE InsertBytes(_, _, _)
InsertBytes(t, cur, bytes) ==
    IF bytes = <<>> THEN [t EXCEPT !.terminal[cur] = TRUE]
    ELSE LET existing == FindChild(t.children[cur], Head(bytes))
         IN  IF existing # None
             THEN InsertBytes(t, existing[1], Tail(bytes))
             ELSE LET idx == VecLen(t.children)
                      grown ==
                          [children |->
                              [i \in 0..idx |->
                                  IF i = idx THEN <<>>
                                  ELSE IF i = cur
                                       THEN Append(t.children[cur],
                                                   <<Head(bytes), idx>>)
                                       ELSE t.children[i]],
                           terminal |->
                              [i \in 0..idx |->
                                  IF i = idx THEN FALSE ELSE t.terminal[i]]]
                  IN  InsertBytes(grown, idx, Tail(bytes))

\* children.sort_by_key(|(k, _)| *k): the keys of a node are distinct.
RECURSIVE SortByKey(_)
SortByKey(children) ==
    IF children = <<>> THEN <<>>
    ELSE LET m == CHOOSE i \in 1..Len(children) :
                      \A j \in 1..Len(children) :
                          children[i][1] <= children[j][1]
             rest == [j \in 1..(Len(children) - 1) |->
                         IF j < m THEN children[j] ELSE children[j + 1]]
         IN  <<children[m]>> \o SortByKey(rest)

\* Whether cell pos counts as taken: `pos < len && occupied[pos]`.
Taken(occ, cell) == cell < VecLen(occ) /\ occ[cell]

\* find_base: the smallest b none of whose cells b + k is taken.
RECURSIVE FindBaseFrom(_, _, _)
FindBaseFrom(ks, occ, b) ==
    IF \E i \in 1..Len(ks) : Taken(occ, b + ks[i])
    THEN FindBaseFrom(ks, occ, b + 1)
    ELSE b

\* find_base that looks at the cell of the first key only.
find_base_first_key_only(ks, occ) == FindBaseFrom(<<ks[1]>>, occ, 0)

find_base(ks, occ) == FindBaseFrom(ks, occ, 0)

\* The writes of `for &(key, child_trie_idx) in ch` (build.rs 98-109), on
\* the record d of check, occupied, da_pos and queue.
RECURSIVE PlaceChildren(_, _, _, _, _)
PlaceChildren(d, ch, b, s, terminal) ==
    IF ch = <<>> THEN d
    ELSE LET key == Head(ch)[1]
             child == Head(ch)[2]
             t == b + key
         IN  PlaceChildren(
                 [check |-> [d.check EXCEPT ![t] = PackCheck(s, terminal[child])],
                  occupied |-> [d.occupied EXCEPT ![t] = TRUE],
                  da_pos |-> [d.da_pos EXCEPT ![child] = t],
                  queue |-> Append(d.queue, child)],
                 Tail(ch), b, s, terminal)

\* occupied.iter().rposition(|&o| o).map_or(0, |i| i + 1)
ActualSize(occ) ==
    LET set == {i \in DOMAIN occ : occ[i]}
    IN  IF set = {} THEN 0
        ELSE (CHOOSE i \in set : \A j \in set : j <= i) + 1

(***************************************************************************)
(* build_claude_trie as a state machine.                                   *)
(***************************************************************************)
\* Bytes 0, 1, 2, 3 stand for "a", "b", "c", "x".
T_a == <<0>>
T_b == <<1>>
T_ab == <<0, 1>>
T_c == <<2>>
T_ac == <<0, 2>>
T_abc == <<0, 1, 2>>

\* "ab" comes before "a" and "abc" after both, so that a token is inserted
\* both along an existing path and beyond one.
TokenUniverse == <<T_ab, T_a, T_abc, T_b, T_ac, T_c>>

\* The vocabulary file lists distinct tokens; the model takes them in the
\* order of TokenUniverse.
Vocabularies ==
    {[i \in 1..Len(ix) |-> TokenUniverse[ix[i]]] :
        ix \in {s \in SeqUpTo(1..Len(TokenUniverse), MaxVocab) :
                   \A i \in 1..(Len(s) - 1) : s[i] < s[i + 1]}}

\* No call of count_tokens is in progress.
CountIdle ==
    /\ text = <<>>
    /\ pos = 0
    /\ count = 0
    /\ count_pc = "idle"
    /\ result = None

TrieInit ==
    /\ vocab \in Vocabularies
    /\ token_i = 0
    /\ node_children = VecNew(<<>>, 1)
    /\ node_terminal = VecNew(FALSE, 1)
    /\ base = <<>>
    /\ check = <<>>
    /\ occupied = <<>>
    /\ da_pos = <<>>
    /\ queue = <<>>
    /\ trie_pc = "insert"
    /\ trie_bin = None
    /\ CountIdle

TrieIdle ==
    /\ vocab = <<>>
    /\ token_i = 0
    /\ node_children = <<>>
    /\ node_terminal = <<>>
    /\ base = <<>>
    /\ check = <<>>
    /\ occupied = <<>>
    /\ da_pos = <<>>
    /\ queue = <<>>
    /\ trie_pc = "idle"
    /\ trie_bin = None
    /\ CountIdle

\* One iteration of `for token in &vocab`.
InsertToken ==
    /\ trie_pc = "insert"
    /\ token_i < Len(vocab)
    /\ LET t == InsertBytes([children |-> node_children,
                             terminal |-> node_terminal], 0,
                            vocab[token_i + 1])
       IN  /\ node_children' = t.children
           /\ node_terminal' = t.terminal
    /\ token_i' = token_i + 1
    /\ UNCHANGED <<vocab, base, check, occupied, da_pos, queue, trie_pc,
                   trie_bin>>
    /\ UNCHANGED <<countVars, OthersThanTrie>>

\* The children are sorted and the arrays allocated (build.rs 59-75).
StartPacking ==
    /\ trie_pc = "insert"
    /\ token_i = Len(vocab)
    /\ node_children' = [n \in DOMAIN node_children |->
                            SortByKey(node_children[n])]
    /\ LET num_nodes == VecLen(node_children)
           initial_size == num_nodes + Slack
       IN  /\ base' = VecNew(0, initial_size)
           /\ check' = VecNew(U32_MAX, initial_size)
           /\ occupied' = [VecNew(FALSE, initial_size) EXCEPT ![0] = TRUE]
           /\ da_pos' = VecNew(0, num_nodes)
    /\ queue' = <<0>>
    /\ trie_pc' = "place"
    /\ UNCHANGED <<vocab, token_i, node_terminal, trie_bin>>
    /\ UNCHANGED <<countVars, OthersThanTrie>>

\* One iteration of `while let Some(trie_node) = queue.pop_front()`.
PlaceNode ==
    /\ trie_pc = "place"
    /\ queue # <<>>
    /\ LET trie_node == Head(queue)
           s == da_pos[trie_node]
           ch == node_children[trie_node]
       IN  IF ch = <<>>
           THEN /\ queue' = Tail(queue)
                /\ UNCHANGED <<base, check, occupied, da_pos>>
           ELSE LET ks == [i \in 1..Len(ch) |-> ch[i][1]]
                    b == find_base(ks, occupied)
                    max_pos == b + ByteSpan
                    grow == max_pos >= VecLen(base)
                    new_size == max_pos + Slack
                    base1 == IF grow THEN VecResize(base, new_size, 0)
                             ELSE base
                    check1 == IF grow THEN VecResize(check, new_size, U32_MAX)
                              ELSE check
                    occ1 == IF grow THEN VecResize(occupied, new_size, FALSE)
                            ELSE occupied
                    d == PlaceChildren(
                             [check |-> check1, occupied |-> occ1,
                              da_pos |-> da_pos, queue |-> Tail(queue)],
                             ch, b, s, node_terminal)
                IN  /\ base' = [base1 EXCEPT ![s] = b]
                    /\ check' = d.check
                    /\ occupied' = d.occupied
                    /\ da_pos' = d.da_pos
                    /\ queue' = d.queue
    /\ UNCHANGED <<vocab, token_i, node_children, node_terminal, trie_pc,
                   trie_bin>>
    /\ UNCHANGED <<countVars, OthersThanTrie>>

\* The queue is empty: the arrays are truncated and trie.bin is written
\* (u32 array_size | u32 root | base | check).
WriteTrie ==
    /\ trie_pc = "place"
    /\ queue = <<>>
    /\ LET actual_size == ActualSize(occupied)
       IN  /\ base' = VecTruncate(base, actual_size)
           /\ check' = VecTruncate(check, actual_size)
           /\ trie_bin' = Some([array_size |-> actual_size, root |-> 0,
                                base |-> VecTruncate(base, actual_size),
                                check |-> VecTruncate(check, actual_size)])
    /\ trie_pc' = "done"
    /\ UNCHANGED <<vocab, token_i, node_children, node_terminal, occupied,
                   da_pos, queue>>
    /\ UNCHANGED <<countVars, OthersThanTrie>>

TrieBuildNext == InsertToken \/ StartPacking \/ PlaceNode \/ WriteTrie

(***************************************************************************)
(* The trie at run time: DATrie (src/claude.rs).                           *)
(***************************************************************************)
\* DATrie::new: the fields read from trie.bin.
DATrie == trie_bin[1]

\* transition without the comparison of the owner of the target cell.
transition_without_owner_check(d, s, byte) ==
    IF s >= Cardinality(DOMAIN d.base) THEN None
    ELSE LET t == d.base[s] + byte
         IN  IF t >= d.array_size THEN None
             ELSE LET c == d.check[t]
                  IN  IF c = U32_MAX THEN None
                      ELSE Some(<<t, c.term>>)

\* DATrie::transition.  `off + 4 > self.base.len()` compares byte offsets:
\* it says that s is no cell of base.
transition(d, s, byte) ==
    IF s >= VecLen(d.base) THEN None
    ELSE LET t == d.base[s] + byte
         IN  IF t >= d.array_size THEN None
             ELSE LET c == d.check[t]
                  IN  IF c = U32_MAX \/ c.idx # s THEN None
                      ELSE Some(<<t, c.term>>)

\* The reads of a transition that does not compare t with array_size.
TransitionReadsWithoutTargetCheck(d, s, byte) ==
    IF s >= VecLen(d.base) THEN <<>>
    ELSE <<<<"base", s>>, <<"check", d.base[s] + byte>>>>

\* The cells a call of transition reads, in order, as <<array, index>>:
\* read_u32(self.base, off) after the test of off, read_u32(self.check,
\* t * 4) after the test of t.
TransitionReads(d, s, byte) ==
    IF s >= VecLen(d.base) THEN <<>>
    ELSE IF d.base[s] + byte >= d.array_size THEN <<<<"base", s>>>>
    ELSE <<<<"base", s>>, <<"check", d.base[s] + byte>>>>

\* The reads of match_len, from state cur on.
RECURSIVE WalkReads(_, _, _)
WalkReads(d, rest, cur) ==
    IF rest = <<>> THEN <<>>
    ELSE TransitionReads(d, cur, Head(rest))
             \o (IF transition(d, cur, Head(rest)) = None THEN <<>>
                 ELSE WalkReads(d, Tail(rest),
                                transition(d, cur, Head(rest))[1][1]))

MatchLenReads(d, bytes, p) == WalkReads(d, Slice(bytes, p, Len(bytes)), d.root)

\* The loop of match_len over bytes[pos + 1..]: offset counts from 0.
RECURSIVE MatchWalk(_, _, _, _, _)
MatchWalk(d, rest, offset, cur, best) ==
    IF rest = <<>> THEN best
    ELSE LET tr == transition(d, cur, Head(rest))
         IN  IF tr = None THEN best
             ELSE MatchWalk(d, Tail(rest), offset + 1, tr[1][1],
                            IF tr[1][2] THEN offset + 2 ELSE best)

\* match_len that stops at the first terminal it sees.
RECURSIVE FirstTerminalWalk(_, _, _, _)
FirstTerminalWalk(d, rest, offset, cur) ==
    IF rest = <<>> THEN 0
    ELSE LET tr == transition(d, cur, Head(rest))
         IN  IF tr = None THEN 0
             ELSE IF tr[1][2] THEN offset + 2
                  ELSE FirstTerminalWalk(d, Tail(rest), offset + 1, tr[1][1])

match_len_first_terminal(d, bytes, p) ==
    LET first == transition(d, d.root, bytes[p + 1])
    IN  IF first = None THEN 1
        ELSE LET best == IF first[1][2] THEN 1
                         ELSE FirstTerminalWalk(
                                  d, Slice(bytes, p + 1, Len(bytes)), 0,
                                  first[1][1])
             IN  IF best = 0 THEN 1 ELSE best

\* match_len without the forced one-byte step.
match_len_without_forced_step(d, bytes, p) ==
    LET first == transition(d, d.root, bytes[p + 1])
    IN  IF first = None THEN 1
        ELSE MatchWalk(d, Slice(bytes, p + 1, Len(bytes)), 0, first[1][1],
                       IF first[1][2] THEN 1 ELSE 0)

\* DATrie::match_len (bytes are numbered from 0).
match_len(d, bytes, p) ==
    LET first == transition(d, d.root, bytes[p + 1])
    IN  IF first = None THEN 1
        ELSE LET best == MatchWalk(d, Slice(bytes, p + 1, Len(bytes)), 0,
                                   first[1][1],
                                   IF first[1][2] THEN 1 ELSE 0)
             IN  IF best = 0 THEN 1 ELSE best

\* The bytes of the texts handed to count_tokens.
TextBytes == {0, 1, 2, 3}

\* "abcb", the longer text of the scenario of the trie.
ScenarioTexts == {<<0, 1, 2, 1>>}

Texts == SeqUpTo(TextBytes, MaxText) \cup ScenarioTexts

\* count_tokens is called: the early return for the empty text, or the
\* locals of the loop.
CountStart(t) ==
    /\ trie_pc = "done"
    /\ count_pc = "idle"
    /\ text' = t
    /\ pos' = 0
    /\ count' = 0
    /\ IF t = <<>>
       THEN count_pc' = "done" /\ result' = Some(0)
       ELSE count_pc' = "loop" /\ result' = None
    /\ UNCHANGED <<buildVars, OthersThanTrie>>

\* One iteration of `while pos < bytes.len()`.
CountStep ==
    /\ count_pc = "loop"
    /\ pos < Len(text)
    /\ pos' = pos + match_len(DATrie, text, pos)
    /\ count' = count + 1
    /\ UNCHANGED <<text, count_pc, result, buildVars, OthersThanTrie>>

\* The loop is over: count is returned.
CountReturn ==
    /\ count_pc = "loop"
    /\ pos >= Len(text)
    /\ count_pc' = "done"
    /\ result' = Some(count)
    /\ UNCHANGED <<text, pos, count, buildVars, OthersThanTrie>>

TrieCountNext ==
    \/ \E t \in Texts : CountStart(t)
    \/ CountStep
    \/ CountReturn

TrieNext == TrieBuildNext \/ TrieCountNext

(***************************************************************************)
(* Claims about the trie.                                                  *)
(***************************************************************************)
VocabSet == {vocab[i] : i \in 1..Len(vocab)}

\* The length of the longest prefix of bytes[p..] that is a token of V, or
\* 1 when no prefix is.
LongestTokenPrefix(V, bytes, p) ==
    LET lens == {n \in 1..(Len(bytes) - p) : Slice(bytes, p, p + n) \in V}
    IN  IF lens = {} THEN 1
        ELSE CHOOSE n \in lens : \A m \in lens : m <= n

\* The position after k steps of the greedy longest-match segmentation.
RECURSIVE GreedyPos(_, _, _)
GreedyPos(V, bytes, k) ==
    IF k = 0 THEN 0
    ELSE LET q == GreedyPos(V, bytes, k - 1)
         IN  q + LongestTokenPrefix(V, bytes, q)

\* The vocabulary {"a", "ab", "abc", "b"} of the spec's scenario.
ScenarioVocab == {T_a, T_ab, T_abc, T_b}

\* C4: on a trie built from V, count_tokens segments by greedy longest
\* match: after every iteration the position is the one the segmentation
\* reaches in as many steps (the longest token prefix, or one byte when
\* there is none), and the count returned is the number of steps; so
\* V = {a, ab, abc, b} gives 2 for "abcb" and for "abx", and a text that is
\* one token gives 1.
C4_GreedyLongestMatch ==
    /\ count_pc \in {"loop", "done"}
        => /\ pos = GreedyPos(VocabSet, text, count)
           /\ pos <= Len(text)
    /\ count_pc = "done"
        => /\ result = Some(count)
           /\ pos = Len(text)
           /\ text \in VocabSet => result = Some(1)
           /\ (VocabSet = ScenarioVocab /\ text \in {<<0, 1, 2, 1>>, <<0, 1, 3>>})
                  => result = Some(2)

\* "abx" has been counted on the trie of {a, ab, abc, b}: "ab", then "x" by
\* the forced one-byte step.
C4_Witness ==
    /\ count_pc = "done"
    /\ VocabSet = ScenarioVocab
    /\ text = <<0, 1, 3>>
    /\ result = Some(2)

\* The walk of a whole string from the root: every byte has a transition
\* and the last cell reached is terminal.
RECURSIVE WalkAccepts(_, _, _, _)
WalkAccepts(d, cur, term, w) ==
    IF w = <<>> THEN term
    ELSE LET tr == transition(d, cur, Head(w))
         IN  IF tr = None THEN FALSE
             ELSE WalkAccepts(d, tr[1][1], tr[1][2], Tail(w))

Accepts(d, w) == WalkAccepts(d, d.root, FALSE, w)

\* C5: the double array produced by build_claude_trie, walked with the
\* runtime transition, accepts a whole string w iff w is a token of V.
C5_AcceptsExactlyTheVocabulary ==
    (trie_pc = "done" /\ count_pc = "idle")
        => \A w \in Texts : w # <<>> => (Accepts(DATrie, w) <=> w \in VocabSet)

\* A built trie with a token that is a proper prefix of another and has a
\* proper prefix that is not a token.
C5_Witness ==
    /\ trie_pc = "done"
    /\ count_pc = "idle"
    /\ T_ab \in VocabSet /\ T_abc \in VocabSet /\ T_a \notin VocabSet
    /\ Accepts(DATrie, T_ab) /\ ~Accepts(DATrie, T_a)

\* C6: after the build (growth and truncation included), every child edge
\* (s, b) has its target t = base[s] + b inside the arrays with
\* check[t] & IDX_MASK = s and the terminal bit set exactly when the child
\* is terminal, and every other cell holds the all-ones sentinel.
C6_DoubleArrayInvariant ==
    trie_pc = "done"
        => LET N == DATrie.array_size
           IN  /\ VecLen(base) = N /\ VecLen(check) = N
               /\ DATrie.base = base /\ DATrie.check = check
               /\ \A n \in DOMAIN node_children :
                      \A i \in 1..Len(node_children[n]) :
                          LET s == da_pos[n]
                              key == node_children[n][i][1]
                              child == node_children[n][i][2]
                              t == base[s] + key
                          IN  /\ s < N
                              /\ t < N
                              /\ check[t] # U32_MAX
                              /\ check[t].idx = s
                              /\ check[t].term = node_terminal[child]
                              /\ da_pos[child] = t
               /\ \A t \in 0..(N - 1) :
                      (~\E n \in DOMAIN node_children :
                            \E i \in 1..Len(node_children[n]) :
                                base[da_pos[n]] + node_children[n][i][1] = t)
                          => check[t] = U32_MAX

\* A finished build whose arrays grew, lost trailing cells in the
\* truncation, and hold a node with two children.
C6_Witness ==
    /\ trie_pc = "done"
    /\ VecLen(occupied) > VecLen(node_children) + Slack
    /\ VecLen(base) < VecLen(occupied)
    /\ \E n \in DOMAIN node_children : Len(node_children[n]) >= 2

(***************************************************************************)
(* The runtime over an arbitrary trie.bin: the arrays are not the output   *)
(* of the build but any cells of the header's array_size.                  *)
(***************************************************************************)
\* A base value beyond every cell of the arrays.
HugeBase == 2 ^ 30

CorruptBaseValues(n) == 0..n \cup {HugeBase}

\* The sentinel, or an owner inside or outside the arrays with either
\* terminal bit.
CorruptCheckValues(n) ==
    {U32_MAX} \cup {PackCheck(s, term) : s \in 0..n, term \in BOOLEAN}

CorruptTries ==
    UNION {[array_size : {n}, root : 0..n,
            base : [0..(n - 1) -> CorruptBaseValues(n)],
            check : [0..(n - 1) -> CorruptCheckValues(n)]] :
           n \in 0..CorruptCells}

CorruptTextBytes == {0, 1}
CorruptTexts == SeqUpTo(CorruptTextBytes, MaxText)

CorruptInit ==
    /\ vocab = <<>>
    /\ token_i = 0
    /\ node_children = <<>>
    /\ node_terminal = <<>>
    /\ base = <<>>
    /\ check = <<>>
    /\ occupied = <<>>
    /\ da_pos = <<>>
    /\ queue = <<>>
    /\ trie_pc = "done"
    /\ trie_bin \in {Some(d) : d \in CorruptTries}
    /\ CountIdle

CorruptNext ==
    \/ \E t \in CorruptTexts : CountStart(t)
    \/ CountStep
    \/ CountReturn

\* C9: whatever the base/check arrays hold, every iteration of the counting
\* loop advances the position by at least one byte and never past the end
\* of the input, so the loop ends with the position at the end and the
\* count returned is at most the number of bytes.
C9_CountAtMostTheBytes ==
    /\ [](/\ count <= pos
          /\ pos <= Len(text)
          /\ count_pc = "done"
              => /\ result = Some(count)
                 /\ pos = Len(text)
                 /\ count <= Len(text))
    /\ [][count' = count + 1 => (pos' >= pos + 1 /\ pos' <= Len(text))]_vars

\* Cell 0 is its own child, which no build produces: the walk of "aaa"
\* goes round it and ends as one token at the end of the input.
C9_Witness ==
    /\ count_pc = "done"
    /\ DATrie.array_size = 1
    /\ DATrie.root = 0
    /\ DATrie.base[0] = 0
    /\ DATrie.check[0] = PackCheck(0, TRUE)
    /\ text = <<0, 0, 0>>
    /\ result = Some(1)
    /\ pos = 3

(***************************************************************************)
(* tiktoken: the byte-pair merge of one piece.  A rank is a u32, kept as   *)
(* two 16-bit limbs, the high one first; ranks are only compared.          *)
(***************************************************************************)
RankLess(a, b) == a[1] < b[1] \/ (a[1] = b[1] /\ a[2] < b[2])

\* u32::MAX as a rank.
RANK_MAX == <<LIMB - 1, LIMB - 1>>

\* usize::MAX, the `prev` of index 0: no index of a piece reaches it.
USIZE_MAX == 2 ^ 30 + (2 ^ 30 - 1)

\* The order of Reverse<(rank, part_index, generation)> in the BinaryHeap:
\* the entry popped first is the least one.
entry_less_greatest_rank_first(x, y) ==
    \/ RankLess(y[1], x[1])
    \/ x[1] = y[1] /\ (x[2] < y[2] \/ (x[2] = y[2] /\ x[3] < y[3]))

EntryLess(x, y) ==
    \/ RankLess(x[1], y[1])
    \/ x[1] = y[1] /\ (x[2] < y[2] \/ (x[2] = y[2] /\ x[3] < y[3]))

\* BinaryHeap::push.  The heap is kept as the sequence of its entries in
\* the order in which pop returns them.
RECURSIVE HeapPush(_, _)
HeapPush(h, e) ==
    IF h = <<>> THEN <<e>>
    ELSE IF EntryLess(e, Head(h)) THEN <<e>> \o h
         ELSE <<Head(h)>> \o HeapPush(Tail(h), e)

\* &piece[parts[i].0..parts[i].1]
PartBytes(pc, ps, i) == Slice(pc, ps[i][1], ps[i][2])

\* The closure pair_rank of tiktoken.rs.
tk_pair_rank(data, pc, ps, nx, i) ==
    LET j == nx[i]
    IN  IF j >= Len(pc) THEN None
        ELSE frozen_map_get_concat(data, PartBytes(pc, ps, i),
                                   PartBytes(pc, ps, j))

\* `for i in 0..n - 1`: the heap seeded with every adjacent pair.
RECURSIVE SeedHeap(_, _, _, _, _, _)
SeedHeap(data, pc, ps, nx, i, h) ==
    IF i >= Len(pc) - 1 THEN h
    ELSE LET r == tk_pair_rank(data, pc, ps, nx, i)
         IN  SeedHeap(data, pc, ps, nx, i + 1,
                      IF r = None THEN h ELSE HeapPush(h, <<r[1], i, 0>>))

\* The locals with the live count started at the number of adjacent pairs.
BpeLocalsCountingPairs(data, pc) ==
    LET n == Len(pc)
        ps == [i \in 0..(n - 1) |-> <<i, i + 1>>]
        nx == [i \in 0..(n - 1) |-> i + 1]
    IN  [parts |-> ps,
         next |-> nx,
         prev |-> [i \in 0..(n - 1) |-> IF i = 0 THEN USIZE_MAX ELSE i - 1],
         alive |-> [i \in 0..(n - 1) |-> TRUE],
         gen |-> [i \in 0..(n - 1) |-> 0],
         heap |-> SeedHeap(data, pc, ps, nx, 0, <<>>),
         count |-> n - 1]

\* The locals of bpe_count when the `while let` loop is entered (n >= 2).
BpeLocals(data, pc) ==
    LET n == Len(pc)
        ps == [i \in 0..(n - 1) |-> <<i, i + 1>>]
        nx == [i \in 0..(n - 1) |-> i + 1]
    IN  [parts |-> ps,
         next |-> nx,
         prev |-> [i \in 0..(n - 1) |-> IF i = 0 THEN USIZE_MAX ELSE i - 1],
         alive |-> [i \in 0..(n - 1) |-> TRUE],
         gen |-> [i \in 0..(n - 1) |-> 0],
         heap |-> SeedHeap(data, pc, ps, nx, 0, <<>>),
         count |-> n]

\* The merge that leaves the live count as it was.
MergePartsKeepingCount(data, pc, st, i, j) ==
    LET n == Len(pc)
        k == st.next[j]
        ps == [st.parts EXCEPT ![i] = <<@[1], st.parts[j][2]>>]
        gn == [st.gen EXCEPT ![i] = @ + 1]
        al == [st.alive EXCEPT ![j] = FALSE]
        nx == [st.next EXCEPT ![i] = k]
        pv == IF k < n THEN [st.prev EXCEPT ![k] = i] ELSE st.prev
    IN  [parts |-> ps, next |-> nx, prev |-> pv, alive |-> al, gen |-> gn,
         heap |-> Tail(st.heap), count |-> st.count]

\* The merge that leaves prev[k] pointing at the part it removed.
MergePartsWithoutPrev(data, pc, st, i, j) ==
    LET n == Len(pc)
        k == st.next[j]
        ps == [st.parts EXCEPT ![i] = <<@[1], st.parts[j][2]>>]
        gn == [st.gen EXCEPT ![i] = @ + 1]
        al == [st.alive EXCEPT ![j] = FALSE]
        nx == [st.next EXCEPT ![i] = k]
    IN  [parts |-> ps, next |-> nx, prev |-> st.prev, alive |-> al,
         gen |-> gn, heap |-> Tail(st.heap), count |-> st.count - 1]

\* The merge of parts i and j and the two re-evaluations that follow it.
MergeParts(data, pc, st, i, j) ==
    LET n == Len(pc)
        k == st.next[j]
        ps == [st.parts EXCEPT ![i] = <<@[1], st.parts[j][2]>>]
        gn == [st.gen EXCEPT ![i] = @ + 1]
        al == [st.alive EXCEPT ![j] = FALSE]
        nx == [st.next EXCEPT ![i] = k]
        pv == IF k < n THEN [st.prev EXCEPT ![k] = i] ELSE st.prev
        h1 == Tail(st.heap)
        h2 == IF pv[i] # USIZE_MAX /\ al[pv[i]]
              THEN LET p == pv[i]
                       r == tk_pair_rank(data, pc, ps, nx, p)
                   IN  IF r = None THEN h1
                       ELSE HeapPush(h1, <<r[1], p, gn[p]>>)
              ELSE h1
        h3 == IF nx[i] < n
              THEN LET r == tk_pair_rank(data, pc, ps, nx, i)
                   IN  IF r = None THEN h2
                       ELSE HeapPush(h2, <<r[1], i, gn[i]>>)
              ELSE h2
    IN  [parts |-> ps, next |-> nx, prev |-> pv, alive |-> al, gen |-> gn,
         heap |-> h3, count |-> st.count - 1]

\* One iteration of `while let Some(Reverse((rank, i, g))) = heap.pop()`.
PopStep(data, pc, st) ==
    LET rank == Head(st.heap)[1]
        i == Head(st.heap)[2]
        g == Head(st.heap)[3]
        discard == [st EXCEPT !.heap = Tail(st.heap)]
    IN  IF ~st.alive[i] \/ st.gen[i] # g THEN discard
        ELSE LET j == st.next[i]
             IN  IF j >= Len(pc) \/ ~st.alive[j] THEN discard
                 ELSE LET current_rank ==
                              frozen_map_get_concat(
                                  data, PartBytes(pc, st.parts, i),
                                  PartBytes(pc, st.parts, j))
                      IN  IF current_rank = None THEN discard
                          ELSE IF current_rank[1] # rank THEN discard
                          ELSE MergeParts(data, pc, st, i, j)

\* The whole loop, and bpe_count as a function.
RECURSIVE PopLoop(_, _, _)
PopLoop(data, pc, st) ==
    IF st.heap = <<>> THEN st ELSE PopLoop(data, pc, PopStep(data, pc, st))

tk_bpe_count(data, pc) ==
    IF pc = <<>> THEN 0
    ELSE IF Len(pc) = 1 THEN 1
    ELSE PopLoop(data, pc, BpeLocals(data, pc)).count

(***************************************************************************)
(* The linear-scan bpe_count that the heap replaced.                       *)
(***************************************************************************)
\* frozen_map_get, the lookup of a whole key: FNV-1a hash of the key,
\* first probe by fast-range reduction, linear probing up to a slot whose
\* hash is zero (miss) or whose hash and stored bytes equal the key (hit).
RECURSIVE GetLoop(_, _, _, _, _)
GetLoop(t, h, key, idx, n) ==
    IF n = 0 THEN None
    ELSE LET slot == t.slots[idx + 1]
         IN  IF slot.hash = ZeroHash THEN None
             ELSE IF slot.hash = h /\ Stored(t, slot) = key
                  THEN Some(slot.value)
                  ELSE GetLoop(t, h, key, NextIdx(idx, t.num_slots), n - 1)

frozen_map_get(t, key) ==
    LET h == fnv_hash(key)
    IN  GetLoop(t, h, key, LookupStartIdx(h, t.num_slots), t.num_slots)

\* `for i in 0..parts.len() - 1`: the least rank and the first index that
\* has it.  ps is the Vec of parts, numbered from 1 here.
RECURSIVE ScanPairs(_, _, _, _, _, _)
ScanPairs(data, pc, ps, i, best_rank, best_idx) ==
    IF i >= Len(ps) - 1 THEN <<best_rank, best_idx>>
    ELSE LET merge_buf == PartBytes(pc, ps, i + 1) \o PartBytes(pc, ps, i + 2)
             rank == frozen_map_get(data, merge_buf)
         IN  IF rank # None /\ RankLess(rank[1], best_rank)
             THEN ScanPairs(data, pc, ps, i + 1, rank[1], i)
             ELSE ScanPairs(data, pc, ps, i + 1, best_rank, best_idx)

\* The `loop` of the linear scan; log collects the range of every merge.
RECURSIVE ScanLoop(_, _, _, _)
ScanLoop(data, pc, ps, log) ==
    IF Len(ps) <= 1 THEN [parts |-> ps, merges |-> log]
    ELSE LET best == ScanPairs(data, pc, ps, 0, RANK_MAX, 0)
             best_idx == best[2]
             merged == <<ps[best_idx + 1][1], ps[best_idx + 2][2]>>
         IN  IF best[1] = RANK_MAX THEN [parts |-> ps, merges |-> log]
             ELSE ScanLoop(data, pc,
                           SubSeq(ps, 1, best_idx) \o <<merged>>
                               \o SubSeq(ps, best_idx + 3, Len(ps)),
                           Append(log, merged))

LinearScan(data, pc) ==
    ScanLoop(data, pc, [i \in 1..Len(pc) |-> <<i - 1, i>>], <<>>)

linear_bpe_count(data, pc) ==
    IF pc = <<>> THEN 0
    ELSE IF Len(pc) = 1 THEN 1
    ELSE Len(LinearScan(data, pc).parts)

(***************************************************************************)
(* bpe_count as a state machine: one pop of the heap per step.             *)
(***************************************************************************)
K_bb == <<98, 98>>
K_abb == <<97, 98, 98>>

\* The keys a rank table may hold, in the order of the vocabulary file.
RankKeys == <<K_ab, K_bb, K_abb>>
RankValues == {<<0, 0>>, <<0, 1>>, RANK_MAX}

\* The entries of a rank table: distinct keys, any ranks.
RankEntries ==
    UNION {{[key |-> [i \in 1..Len(ix) |-> RankKeys[ix[i]]], rank |-> rk] :
               rk \in [1..Len(ix) -> RankValues]} :
           ix \in {q \in SeqUpTo(1..Len(RankKeys), Len(RankKeys)) :
                      \A i \in 1..(Len(q) - 1) : q[i] < q[i + 1]}}

\* A frozen map whose entries sit on the probe path of the runtime lookup:
\* each key in the first empty slot from its fast-range index.
RECURSIVE ProbeOrderLoop(_, _, _, _, _, _)
ProbeOrderLoop(keys_, vals, i, slots_, pool, num_slots) ==
    IF i > Len(keys_) THEN EmitTable(num_slots, Len(keys_), slots_, pool)
    ELSE LET h == fnv_hash(keys_[i])
             idx == FirstEmpty(slots_, num_slots,
                               LookupStartIdx(h, num_slots))
         IN  ProbeOrderLoop(
                 keys_, vals, i + 1,
                 [slots_ EXCEPT ![idx + 1] =
                     [hash |-> h, key_off |-> Len(pool),
                      key_len |-> Len(keys_[i]),
                      value |-> IF vals = <<>> THEN 0 ELSE vals[i]]],
                 pool \o keys_[i], num_slots)

ProbeOrderTable(keys_, vals) ==
    ProbeOrderLoop(keys_, vals, 1,
                   [s \in 1..NumSlots(Len(keys_)) |-> EmptySlot], <<>>,
                   NumSlots(Len(keys_)))

\* The data given to TiktokenTokenizer::new: the blob the builder emits
\* for the entries, or the blob that holds them on the probe path.
RankTables ==
    {build_frozen_table(e.key, e.rank) : e \in RankEntries}
        \cup {ProbeOrderTable(e.key, e.rank) : e \in RankEntries}

PieceBytes == {97, 98}
Pieces == SeqUpTo(PieceBytes, MaxPiece)

BpeIdle ==
    /\ piece = <<>>
    /\ parts = <<>>
    /\ next = <<>>
    /\ prev = <<>>
    /\ alive = <<>>
    /\ gen = <<>>
    /\ heap = <<>>
    /\ tk_count = 0
    /\ bpe_pc = "idle"
    /\ bpe_result = None
    /\ merges = <<>>

TiktokenIdle ==
    /\ tk_data = None
    /\ BpeIdle

TiktokenInit ==
    /\ tk_data \in {Some(t) : t \in RankTables}
    /\ BpeIdle

RankTable == tk_data[1]

\* The locals of the call in progress.
BpeState ==
    [parts |-> parts, next |-> next, prev |-> prev, alive |-> alive,
     gen |-> gen, heap |-> heap, count |-> tk_count]

SetBpeState(st) ==
    /\ parts' = st.parts
    /\ next' = st.next
    /\ prev' = st.prev
    /\ alive' = st.alive
    /\ gen' = st.gen
    /\ heap' = st.heap
    /\ tk_count' = st.count

\* bpe_count(piece) up to the `while let`: the two early returns, or the
\* locals and the seeded heap.
BpeStart(pc) ==
    /\ bpe_pc = "idle"
    /\ piece' = pc
    /\ IF Len(pc) <= 1
       THEN /\ bpe_pc' = "done"
            /\ bpe_result' = Some(Len(pc))
            /\ UNCHANGED <<parts, next, prev, alive, gen, heap, tk_count>>
       ELSE /\ bpe_pc' = "loop"
            /\ bpe_result' = None
            /\ SetBpeState(BpeLocals(RankTable, pc))
    /\ UNCHANGED <<merges, tk_data, OthersThanTiktoken>>

\* One pop: an entry discarded, or a merge.
BpePop ==
    /\ bpe_pc = "loop"
    /\ heap # <<>>
    /\ LET st == PopStep(RankTable, piece, BpeState)
       IN  /\ SetBpeState(st)
           /\ merges' = IF st.count # tk_count
                        THEN Append(merges, st.parts[Head(heap)[2]])
                        ELSE merges
    /\ UNCHANGED <<piece, bpe_pc, bpe_result, tk_data, OthersThanTiktoken>>

\* The heap is empty: count is returned.
BpeReturn ==
    /\ bpe_pc = "loop"
    /\ heap = <<>>
    /\ bpe_pc' = "done"
    /\ bpe_result' = Some(tk_count)
    /\ UNCHANGED <<piece, parts, next, prev, alive, gen, heap, tk_count,
                   merges, tk_data, OthersThanTiktoken>>

TiktokenNext ==
    \/ \E pc \in Pieces : BpeStart(pc)
    \/ BpePop
    \/ BpeReturn

\* The table holds no rank equal to u32::MAX.
RanksBelowMax ==
    \A i \in 1..RankTable.num_slots :
        RankTable.slots[i].hash # ZeroHash
            => RankTable.slots[i].value # RANK_MAX

IsPrefix(p, q) == Len(p) <= Len(q) /\ SubSeq(q, 1, Len(p)) = p

\* The merges done so far are the first merges of the linear scan, and the
\* value returned is the linear scan's.
SameAsLinearScan ==
    /\ bpe_pc = "loop" => IsPrefix(merges, LinearScan(RankTable, piece).merges)
    /\ bpe_pc = "done"
        => /\ bpe_result = Some(linear_bpe_count(RankTable, piece))
           /\ Len(piece) >= 2
                  => merges = LinearScan(RankTable, piece).merges

HeapMatchesLinearScanBelowMax == RanksBelowMax => SameAsLinearScan

\* "abb" with "bb" ranked below "ab": "bb" is merged first, the entry of
\* (a, b) pushed by the seed is then stale, and "a" + "bb" is merged from
\* the entry pushed after the first merge.
StaleEntryDiscarded ==
    /\ bpe_pc = "done"
    /\ RanksBelowMax
    /\ piece = K_abb
    /\ merges = <<<<1, 3>>, <<0, 3>>>>
    /\ frozen_map_get(RankTable, K_ab) # None
    /\ bpe_result = Some(1)

(***************************************************************************)
(* Strings.  A &str is the sequence of its chars (code points); as_bytes   *)
(* is its UTF-8 encoding.                                                  *)
(***************************************************************************)
\* char::encode_utf8
Utf8(c) ==
    IF c < 128 THEN <<c>>
    ELSE IF c < 2048 THEN <<192 + (c \div 64), 128 + (c % 64)>>
    ELSE IF c < 65536
         THEN <<224 + (c \div 4096), 128 + ((c \div 64) % 64), 128 + (c % 64)>>
         ELSE <<240 + (c \div 262144), 128 + ((c \div 4096) % 64),
                128 + ((c \div 64) % 64), 128 + (c % 64)>>

\* str::as_bytes
RECURSIVE AsBytes(_)
AsBytes(str) ==
    IF str = <<>> THEN <<>> ELSE Utf8(Head(str)) \o AsBytes(Tail(str))

(***************************************************************************)
(* O200K_PAT, on texts of ASCII chars and U+00E9.  Among these chars       *)
(* \p{Lt}, \p{Lm}, \p{Lo} and \p{M} are empty, so the two letter classes   *)
(* of the pattern are \p{Lu} and \p{Ll} and have no char in common.        *)
(***************************************************************************)
PatChars == 0..127 \cup {233}
Lu == 65..90
Ll == 97..122 \cup {233}
Letters == Lu \cup Ll
Numbers == 48..57
\* \s
Spaces == 9..13 \cup {32}
\* [\r\n]
Newlines == {10, 13}
\* [^\r\n\p{L}\p{N}]
NotNewlineLetterNumber == PatChars \ (Newlines \cup Letters \cup Numbers)
\* [^\s\p{L}\p{N}]
NotSpaceLetterNumber == PatChars \ (Spaces \cup Letters \cup Numbers)
\* [\r\n/]
NewlineOrSlash == Newlines \cup {47}

NoMatch == 0 - 1

\* The end of the longest run of chars of class from p (chars are numbered
\* from 0): what a greedy `class*` takes.
RECURSIVE RunEnd(_, _, _)
RunEnd(class, str, p) ==
    IF p < Len(str) /\ str[p + 1] \in class THEN RunEnd(class, str, p + 1)
    ELSE p

ToLower(c) == IF c \in Lu THEN c + 32 ELSE c

\* ('s|'S|'t|'T|'re|'rE|'Re|'RE|'ve|'vE|'Ve|'VE|'m|'M|'ll|'lL|'Ll|'LL|'d|'D)?
\* at p: the end of the contraction, or p.
ContractionEnd(str, p) ==
    IF p + 1 < Len(str) /\ str[p + 1] = 39
    THEN IF ToLower(str[p + 2]) \in {115, 116, 109, 100} THEN p + 2
         ELSE IF /\ p + 2 < Len(str)
                 /\ <<ToLower(str[p + 2]), ToLower(str[p + 3])>>
                        \in {<<114, 101>>, <<118, 101>>, <<108, 108>>}
              THEN p + 3
              ELSE p
    ELSE p

\* [^\r\n\p{L}\p{N}]? at p.  Without the optional char the letters would
\* have to start on it, so giving it back never makes a match.
AfterOptional(class, str, p) ==
    IF p < Len(str) /\ str[p + 1] \in class THEN p + 1 ELSE p

\* [^\r\n\p{L}\p{N}]?[\p{Lu}..]*[\p{Ll}..]+(contraction)?
Alt1(str, p) ==
    LET u == RunEnd(Lu, str, AfterOptional(NotNewlineLetterNumber, str, p))
        l == RunEnd(Ll, str, u)
    IN  IF l > u THEN ContractionEnd(str, l) ELSE NoMatch

\* [^\r\n\p{L}\p{N}]?[\p{Lu}..]+[\p{Ll}..]*(contraction)?
Alt2(str, p) ==
    LET q == AfterOptional(NotNewlineLetterNumber, str, p)
        u == RunEnd(Lu, str, q)
    IN  IF u > q THEN ContractionEnd(str, RunEnd(Ll, str, u)) ELSE NoMatch

\* \p{N}{1,3}
Alt3(str, p) ==
    LET e == Min(RunEnd(Numbers, str, p), p + 3)
    IN  IF e > p THEN e ELSE NoMatch

\* " ?[^\s\p{L}\p{N}]+[\r\n/]*"
Alt4(str, p) ==
    LET q == AfterOptional({32}, str, p)
        r == RunEnd(NotSpaceLetterNumber, str, q)
    IN  IF r > q THEN RunEnd(NewlineOrSlash, str, r) ELSE NoMatch

\* \s*[\r\n]+ : \s* gives chars back up to the last newline of the run.
Alt5(str, p) ==
    LET w == RunEnd(Spaces, str, p)
        nl == {i \in p..(w - 1) : str[i + 1] \in Newlines}
    IN  IF nl = {} THEN NoMatch
        ELSE (CHOOSE i \in nl : \A j \in nl : j <= i) + 1

\* \s+(?!\S) : the whole run at the end of the text, else the run less its
\* last char, which then is the whitespace the lookahead sees.
Alt6(str, p) ==
    LET w == RunEnd(Spaces, str, p)
    IN  IF w = p THEN NoMatch
        ELSE IF w = Len(str) THEN w
        ELSE IF w - 1 > p THEN w - 1
        ELSE NoMatch

\* \s+
Alt7(str, p) ==
    LET w == RunEnd(Spaces, str, p)
    IN  IF w > p THEN w ELSE NoMatch

\* The end of the match of O200K_PAT that starts at p: the first
\* alternative that matches.
O200kMatchAt(str, p) ==
    LET ends == <<Alt1(str, p), Alt2(str, p), Alt3(str, p), Alt4(str, p),
                  Alt5(str, p), Alt6(str, p), Alt7(str, p)>>
        hits == {k \in 1..7 : ends[k] # NoMatch}
    IN  IF hits = {} THEN NoMatch
        ELSE ends[CHOOSE k \in hits : \A j \in hits : k <= j]

\* regex.find_iter(text): the matches <<start, end>> from p on, left to
\* right; a position where nothing matches is stepped over.
RECURSIVE O200kFindIter(_, _)
O200kFindIter(str, p) ==
    IF p >= Len(str) THEN <<>>
    ELSE LET e == O200kMatchAt(str, p)
         IN  IF e = NoMatch THEN O200kFindIter(str, p + 1)
             ELSE <<<<p, e>>>> \o O200kFindIter(str, e)

\* `for m in self.regex.find_iter(text) { total += self.bpe_count(..) }`
RECURSIVE SumPieces(_, _, _)
SumPieces(data, str, ms) ==
    IF ms = <<>> THEN 0
    ELSE tk_bpe_count(data, AsBytes(Slice(str, ms[1][1], ms[1][2])))
             + SumPieces(data, str, Tail(ms))

\* TiktokenTokenizer::count_tokens
tk_count_tokens(data, str) ==
    IF str = <<>> THEN 0
    ELSE SumPieces(data, str, O200kFindIter(str, 0))

(***************************************************************************)
(* The HF pipeline: normalizer, pre-tokenizer, BPE merge count.            *)
(***************************************************************************)
\* str::replace: the occurrences of pattern, left to right and without
\* overlap; the empty pattern occurs before every char and at the end.
RECURSIVE StrReplace(_, _, _)
StrReplace(str, pattern, content) ==
    IF pattern = <<>>
    THEN IF str = <<>> THEN content
         ELSE content \o <<Head(str)>> \o StrReplace(Tail(str), pattern, content)
    ELSE IF Len(str) < Len(pattern) THEN str
    ELSE IF SubSeq(str, 1, Len(pattern)) = pattern
         THEN content \o StrReplace(SubSeq(str, Len(pattern) + 1, Len(str)),
                                    pattern, content)
         ELSE <<Head(str)>> \o StrReplace(Tail(str), pattern, content)

\* text.nfc(), on the chars of the model: "e" followed by U+0301 composes
\* to U+00E9, every other char stays.
RECURSIVE Nfc(_)
Nfc(str) ==
    IF str = <<>> THEN <<>>
    ELSE IF Len(str) >= 2 /\ str[1] = 101 /\ str[2] = 769
         THEN <<233>> \o Nfc(SubSeq(str, 3, Len(str)))
         ELSE <<Head(str)>> \o Nfc(Tail(str))

RECURSIVE apply_normalizer(_, _)
\* `for n in norms { s = apply_normalizer(n, &s); }`
RECURSIVE ApplyEach(_, _)
ApplyEach(norms, str) ==
    IF norms = <<>> THEN str
    ELSE ApplyEach(Tail(norms), apply_normalizer(Head(norms), str))

apply_normalizer(norm, str) ==
    CASE norm.tag = "None" -> str
      [] norm.tag = "Replace" -> StrReplace(str, norm.pattern, norm.content)
      [] norm.tag = "Prepend" -> norm.prefix \o str
      [] norm.tag = "Nfc" -> Nfc(str)
      [] norm.tag = "Sequence" -> ApplyEach(norm.norms, str)

\* The regex of a Split step is either the empty pattern (it matches the
\* empty string at every position) or `[class]+`.
RECURSIVE RunFindIter(_, _, _)
RunFindIter(class, str, p) ==
    IF p >= Len(str) THEN <<>>
    ELSE IF str[p + 1] \in class
         THEN <<<<p, RunEnd(class, str, p)>>>>
                  \o RunFindIter(class, str, RunEnd(class, str, p))
         ELSE RunFindIter(class, str, p + 1)

FindIter(regex, str) ==
    IF regex.kind = "empty" THEN [i \in 1..(Len(str) + 1) |-> <<i - 1, i - 1>>]
    ELSE RunFindIter(regex.class, str, 0)

\* The loop that pushes the matches only.
RECURSIVE SplitLoopWithoutGaps(_, _, _, _)
SplitLoopWithoutGaps(str, ms, last_end, chunks) ==
    IF ms = <<>> THEN chunks
    ELSE SplitLoopWithoutGaps(str, Tail(ms), Head(ms)[2],
                              Append(chunks,
                                     Slice(str, Head(ms)[1], Head(ms)[2])))

\* The loop and the tail of split_isolated.
RECURSIVE SplitLoop(_, _, _, _)
SplitLoop(str, ms, last_end, chunks) ==
    IF ms = <<>>
    THEN IF last_end < Len(str)
         THEN Append(chunks, Slice(str, last_end, Len(str)))
         ELSE chunks
    ELSE LET m == Head(ms)
             gap == IF m[1] > last_end
                    THEN Append(chunks, Slice(str, last_end, m[1]))
                    ELSE chunks
         IN  SplitLoop(str, Tail(ms), m[2],
                       Append(gap, Slice(str, m[1], m[2])))

\* split_isolated that forgets the text after the last match.
split_isolated_without_tail(regex, str) ==
    LET ms == FindIter(regex, str)
    IN  IF ms = <<>> THEN <<>>
        ELSE SplitLoop(Slice(str, 0, ms[Len(ms)][2]), ms, 0, <<>>)

split_isolated(regex, str) == SplitLoop(str, FindIter(regex, str), 0, <<>>)

\* byte_to_char_table: the bytes that map to themselves; the others map to
\* 0x100 + n, n counting the others before them.
\* The ranges with the soft hyphen 0xAD among them.
MapsToItselfWithSoftHyphen(b) ==
    \/ 33 <= b /\ b <= 126
    \/ 161 <= b /\ b <= 255

MapsToItself(b) ==
    \/ 33 <= b /\ b <= 126
    \/ 161 <= b /\ b <= 172
    \/ 174 <= b /\ b <= 255

byte_to_char_table(b) ==
    IF MapsToItself(b) THEN b
    ELSE 256 + Cardinality({x \in 0..(b - 1) : ~MapsToItself(x)})

encode_bytes(input) == [i \in 1..Len(input) |-> byte_to_char_table(input[i])]

\* The loop whose ByteLevel arm has no `break`.
RECURSIVE StepLoopWithoutBreak(_, _, _, _)
StepLoopWithoutBreak(step, chunks, i, next_chunks) ==
    IF i > Len(chunks) THEN next_chunks
    ELSE StepLoopWithoutBreak(
             step, chunks, i + 1,
             next_chunks
                 \o (IF step.tag = "Split"
                     THEN split_isolated(step.regex, chunks[i])
                     ELSE [j \in 1..Len(chunks) |->
                              encode_bytes(AsBytes(chunks[j]))]))

\* `for chunk in &chunks { match step { .. } }` from chunk i on.
RECURSIVE StepLoop(_, _, _, _)
StepLoop(step, chunks, i, next_chunks) ==
    IF i > Len(chunks) THEN next_chunks
    ELSE IF step.tag = "Split"
         THEN StepLoop(step, chunks, i + 1,
                       next_chunks \o split_isolated(step.regex, chunks[i]))
         \* ByteLevel: every chunk is pushed, then `break`
         ELSE next_chunks
                  \o [j \in 1..Len(chunks) |-> encode_bytes(AsBytes(chunks[j]))]

RECURSIVE StepsLoop(_, _)
StepsLoop(steps, chunks) ==
    IF steps = <<>> THEN chunks
    ELSE StepsLoop(Tail(steps), StepLoop(Head(steps), chunks, 1, <<>>))

\* pt is <<>> for PreTokenizer::None, else the steps of the Sequence.
apply_pre_tokenizer(pt, str) ==
    IF pt = <<>> THEN <<str>> ELSE StepsLoop(pt, <<str>>)

\* vocab_contains_char: binary search of the sorted single-char vocabulary.
RECURSIVE CharSearch(_, _, _, _)
CharSearch(chars, target, lo, hi) ==
    IF lo >= hi THEN FALSE
    ELSE LET mid == lo + ((hi - lo) \div 2)
             cp == chars[mid + 1]
         IN  IF cp = target THEN TRUE
             ELSE IF cp < target THEN CharSearch(chars, target, mid + 1, hi)
             ELSE CharSearch(chars, target, lo, mid)

vocab_contains_char(tok, ch) ==
    CharSearch(tok.vocab, ch, 0, Len(tok.vocab))

\* format!("<0x{:02X}>", b), as chars
HexDigit(d) == IF d < 10 THEN 48 + d ELSE 55 + d
ByteToken(b) == <<60, 48, 120, HexDigit(b \div 16), HexDigit(b % 16), 62>>

\* initial_tokens: a char of the vocabulary is one token, any other char
\* is one <0xHH> token per byte of its UTF-8 encoding.
\* initial_tokens that never spells a char as bytes.
initial_tokens_one_per_char(tok, str) == [i \in 1..Len(str) |-> <<str[i]>>]

RECURSIVE initial_tokens(_, _)
initial_tokens(tok, str) ==
    IF str = <<>> THEN <<>>
    ELSE LET ch == Head(str)
             bs == Utf8(ch)
         IN  (IF vocab_contains_char(tok, ch) THEN <<<<ch>>>>
              ELSE [i \in 1..Len(bs) |-> ByteToken(bs[i])])
                 \o initial_tokens(tok, Tail(str))

\* The byte buffer of bpe_merge_count and the ranges of the tokens in it.
RECURSIVE TokenBuf(_)
TokenBuf(toks) ==
    IF toks = <<>> THEN <<>> ELSE AsBytes(Head(toks)) \o TokenBuf(Tail(toks))

TokenParts(toks) ==
    [i \in 0..(Len(toks) - 1) |->
        <<Len(TokenBuf(SubSeq(toks, 1, i))),
          Len(TokenBuf(SubSeq(toks, 1, i + 1)))>>]

\* The pair_rank closure of bpe_merge_count; n is the number of tokens.
hf_pair_rank(mt, buf, n, ps, nx, i) ==
    LET j == nx[i]
    IN  IF j >= n THEN None
        ELSE frozen_map_get_pair(mt, PartBytes(buf, ps, i),
                                 PartBytes(buf, ps, j))

RECURSIVE HfSeedHeap(_, _, _, _, _, _, _)
HfSeedHeap(mt, buf, n, ps, nx, i, h) ==
    IF i >= n - 1 THEN h
    ELSE LET r == hf_pair_rank(mt, buf, n, ps, nx, i)
         IN  HfSeedHeap(mt, buf, n, ps, nx, i + 1,
                        IF r = None THEN h ELSE HeapPush(h, <<r[1], i, 0>>))

HfLocals(mt, toks) ==
    LET n == Len(toks)
        ps == TokenParts(toks)
        nx == [i \in 0..(n - 1) |-> i + 1]
    IN  [parts |-> ps,
         next |-> nx,
         prev |-> [i \in 0..(n - 1) |-> IF i = 0 THEN USIZE_MAX ELSE i - 1],
         alive |-> [i \in 0..(n - 1) |-> TRUE],
         gen |-> [i \in 0..(n - 1) |-> 0],
         heap |-> HfSeedHeap(mt, TokenBuf(toks), n, ps, nx, 0, <<>>),
         count |-> n]

\* The merge that re-evaluates the pair (i, next[i]) only.
HfMergePartsWithoutLeftPair(mt, buf, n, st, i, j) ==
    LET k == st.next[j]
        ps == [st.parts EXCEPT ![i] = <<@[1], st.parts[j][2]>>]
        gn == [st.gen EXCEPT ![i] = @ + 1]
        al == [st.alive EXCEPT ![j] = FALSE]
        nx == [st.next EXCEPT ![i] = k]
        pv == IF k < n THEN [st.prev EXCEPT ![k] = i] ELSE st.prev
        h1 == Tail(st.heap)
        h3 == IF nx[i] < n
              THEN LET r == hf_pair_rank(mt, buf, n, ps, nx, i)
                   IN  IF r = None THEN h1
                       ELSE HeapPush(h1, <<r[1], i, gn[i]>>)
              ELSE h1
    IN  [parts |-> ps, next |-> nx, prev |-> pv, alive |-> al, gen |-> gn,
         heap |-> h3, count |-> st.count - 1]

HfMergeParts(mt, buf, n, st, i, j) ==
    LET k == st.next[j]
        ps == [st.parts EXCEPT ![i] = <<@[1], st.parts[j][2]>>]
        gn == [st.gen EXCEPT ![i] = @ + 1]
        al == [st.alive EXCEPT ![j] = FALSE]
        nx == [st.next EXCEPT ![i] = k]
        pv == IF k < n THEN [st.prev EXCEPT ![k] = i] ELSE st.prev
        h1 == Tail(st.heap)
        h2 == IF pv[i] # USIZE_MAX /\ al[pv[i]]
              THEN LET p == pv[i]
                       r == hf_pair_rank(mt, buf, n, ps, nx, p)
                   IN  IF r = None THEN h1
                       ELSE HeapPush(h1, <<r[1], p, gn[p]>>)
              ELSE h1
        h3 == IF nx[i] < n
              THEN LET r == hf_pair_rank(mt, buf, n, ps, nx, i)
                   IN  IF r = None THEN h2
                       ELSE HeapPush(h2, <<r[1], i, gn[i]>>)
              ELSE h2
    IN  [parts |-> ps, next |-> nx, prev |-> pv, alive |-> al, gen |-> gn,
         heap |-> h3, count |-> st.count - 1]

HfPopStep(mt, buf, n, st) ==
    LET rank == Head(st.heap)[1]
        i == Head(st.heap)[2]
        g == Head(st.heap)[3]
        discard == [st EXCEPT !.heap = Tail(st.heap)]
    IN  IF ~st.alive[i] \/ st.gen[i] # g THEN discard
        ELSE LET j == st.next[i]
             IN  IF j >= n \/ ~st.alive[j] THEN discard
                 ELSE LET current_rank ==
                              frozen_map_get_pair(
                                  mt, PartBytes(buf, st.parts, i),
                                  PartBytes(buf, st.parts, j))
                      IN  IF current_rank = None THEN discard
                          ELSE IF current_rank[1] # rank THEN discard
                          ELSE HfMergeParts(mt, buf, n, st, i, j)

RECURSIVE HfPopLoop(_, _, _, _)
HfPopLoop(mt, buf, n, st) ==
    IF st.heap = <<>> THEN st
    ELSE HfPopLoop(mt, buf, n, HfPopStep(mt, buf, n, st))

bpe_merge_count(tok, initial) ==
    IF initial = <<>> THEN 0
    ELSE IF Len(initial) = 1 THEN 1
    ELSE HfPopLoop(tok.merges, TokenBuf(initial), Len(initial),
                   HfLocals(tok.merges, initial)).count

\* `for j in scan_start..scan_end`: the first j > 0 whose neighbours cannot
\* merge across it, or NoMatch.
RECURSIVE ScanCut(_, _, _, _)
ScanCut(tok, toks, j, scan_end) ==
    IF j >= scan_end THEN NoMatch
    ELSE IF j = 0 THEN ScanCut(tok, toks, j + 1, scan_end)
    ELSE IF ~frozen_set_contains(tok.merge_left, AsBytes(toks[j]))
            \/ ~frozen_set_contains(tok.merge_right, AsBytes(toks[j + 1]))
         THEN j
         ELSE ScanCut(tok, toks, j + 1, scan_end)

\* `while i < n` of bpe_count_chunked, then the last window.
RECURSIVE ChunkedLoop(_, _, _, _, _)
ChunkedLoop(tok, toks, i, start, total) ==
    LET n == Len(toks)
        j == ScanCut(tok, toks, i, Min(n, i + TargetChunk))
        last == IF start < n
                THEN total + bpe_merge_count(tok, Slice(toks, start, n))
                ELSE total
    IN  IF i < n /\ j # NoMatch
        THEN ChunkedLoop(tok, toks, j + TargetChunk, j,
                         total + bpe_merge_count(tok, Slice(toks, start, j)))
        ELSE last

bpe_count_chunked(tok, toks) ==
    ChunkedLoop(tok, toks, Min(TargetChunk, Max(Len(toks) - 1, 0)), 0, 0)

\* `let initial: Vec<String> = if self.byte_fallback { .. } else { .. }`
InitialOf(tok, chunk) ==
    IF tok.byte_fallback THEN initial_tokens(tok, chunk)
    ELSE [i \in 1..Len(chunk) |-> <<chunk[i]>>]

\* The return of bpe_count that is taken for n initial tokens.
bpe_count_path(n) ==
    IF n <= 1 THEN "short"
    ELSE IF n > ChunkLimit THEN "windowed"
    ELSE "single"

hf_bpe_count(tok, chunk) ==
    LET initial == InitialOf(tok, chunk)
        n == Len(initial)
    IN  IF n <= 1 THEN n
        ELSE IF n > ChunkLimit THEN bpe_count_chunked(tok, initial)
        ELSE bpe_merge_count(tok, initial)

\* `for chunk in &chunks { if !chunk.is_empty() { total += .. } }`
RECURSIVE SumChunks(_, _)
SumChunks(tok, chunks) ==
    IF chunks = <<>> THEN 0
    ELSE (IF Head(chunks) # <<>> THEN hf_bpe_count(tok, Head(chunks)) ELSE 0)
             + SumChunks(tok, Tail(chunks))

\* count_tokens without the early return on the empty text.
hf_count_tokens_without_empty_return(tok, str) ==
    tok.post_add
        + SumChunks(tok, apply_pre_tokenizer(tok.pre_tokenizer,
                             apply_normalizer(tok.normalizer, str)))

\* count_tokens whose total starts at 0.
hf_count_tokens_without_post_add(tok, str) ==
    IF str = <<>> THEN 0
    ELSE SumChunks(tok, apply_pre_tokenizer(tok.pre_tokenizer,
                            apply_normalizer(tok.normalizer, str)))

hf_count_tokens(tok, str) ==
    IF str = <<>> THEN 0
    ELSE tok.post_add
             + SumChunks(tok, apply_pre_tokenizer(tok.pre_tokenizer,
                                  apply_normalizer(tok.normalizer, str)))

(***************************************************************************)
(* count_tokens of the three tokenizers as a state machine: one tokenizer  *)
(* is built or loaded, then count_tokens is called on a text.              *)
(***************************************************************************)
LowerOneEighth == 9601 \* U+2581, the word marker of sentencepiece vocabularies

Normalizers ==
    {[tag |-> "None"],
     [tag |-> "Nfc"],
     [tag |-> "Prepend", prefix |-> <<LowerOneEighth>>],
     [tag |-> "Replace", pattern |-> <<32>>, content |-> <<LowerOneEighth>>],
     \* a Replace without "pattern" in tokenizer.json: the empty pattern
     [tag |-> "Replace", pattern |-> <<>>, content |-> <<LowerOneEighth>>],
     [tag |-> "Sequence",
      norms |-> <<[tag |-> "Prepend", prefix |-> <<LowerOneEighth>>],
                  [tag |-> "Replace", pattern |-> <<32>>,
                   content |-> <<LowerOneEighth>>]>>]}

SplitEmpty == [tag |-> "Split", regex |-> [kind |-> "empty"]]
SplitSpaces == [tag |-> "Split", regex |-> [kind |-> "run", class |-> {32}]]
SplitLetters == [tag |-> "Split", regex |-> [kind |-> "run", class |-> Letters]]
ByteLevel == [tag |-> "ByteLevel"]

PreTokenizers ==
    {<<>>, <<SplitEmpty>>, <<SplitSpaces>>, <<ByteLevel>>,
     <<SplitLetters, ByteLevel>>}

\* model.byte_fallback and the single-char keys of model.vocab, sorted.
Vocabs ==
    {[byte_fallback |-> FALSE, vocab |-> <<>>],
     [byte_fallback |-> TRUE, vocab |-> <<>>],
     [byte_fallback |-> TRUE, vocab |-> <<97, LowerOneEighth>>]}

\* model.merges: none, the marker with "a", "a b" then "ab b".
NoMerges == <<>>
MarkerMerges == <<<<<<LowerOneEighth>>, <<97>>>>>>
LetterMerges == <<<<<<97>>, <<98>>>>, <<<<97, 98>>, <<98>>>>>>

\* `if merge_left_seen.insert(..) { merge_left_keys.push(..) }`
RECURSIVE FirstOccurrences(_, _)
FirstOccurrences(seq, seen) ==
    IF seq = <<>> THEN <<>>
    ELSE IF Head(seq) \in seen THEN FirstOccurrences(Tail(seq), seen)
    ELSE <<Head(seq)>> \o FirstOccurrences(Tail(seq), seen \cup {Head(seq)})

\* A table of the blob: as build_frozen_table lays it out, or with its
\* entries on the probe path.
LaidOut(keys_, vals, on_probe_path) ==
    IF on_probe_path THEN ProbeOrderTable(keys_, vals)
    ELSE build_frozen_table(keys_, vals)

\* The three tables of the blob for a list of merges.
MergeTables(list, on_probe_path) ==
    [merges |-> LaidOut([i \in 1..Len(list) |->
                            AsBytes(list[i][1]) \o <<0>> \o AsBytes(list[i][2])],
                        [i \in 1..Len(list) |-> <<0, i - 1>>], on_probe_path),
     merge_left |-> LaidOut(FirstOccurrences(
                                [i \in 1..Len(list) |-> AsBytes(list[i][1])],
                                {}),
                            <<>>, on_probe_path),
     merge_right |-> LaidOut(FirstOccurrences(
                                 [i \in 1..Len(list) |-> AsBytes(list[i][2])],
                                 {}),
                             <<>>, on_probe_path)]

\* The tokenizers from_frozen returns for the blobs of build_hf_frozen, and
\* for blobs whose tables hold their entries on the probe path.
TokenizersOf(vocabs, tables) ==
    {[byte_fallback |-> v.byte_fallback, vocab |-> v.vocab, post_add |-> pa,
      normalizer |-> nm, pre_tokenizer |-> pt, merges |-> tb.merges,
      merge_left |-> tb.merge_left, merge_right |-> tb.merge_right] :
        v \in vocabs, pa \in {0, MaxPostAdd}, nm \in Normalizers,
        pt \in PreTokenizers, tb \in tables}

HfTokenizers ==
    TokenizersOf(Vocabs, {MergeTables(NoMerges, FALSE),
                          MergeTables(LetterMerges, FALSE),
                          MergeTables(MarkerMerges, TRUE),
                          MergeTables(LetterMerges, TRUE)})

\* The texts given to the two BPE tokenizers: the short texts over "a",
\* "b" and the space, "e" with a combining acute, and one-byte texts: all
\* of them for tiktoken, for HF one byte of each kind its pipeline tells
\* apart (control, newline, space, punctuation, digit, upper, lower, DEL).
BpeTextChars == {97, 98, 32}
ShortTexts == SeqUpTo(BpeTextChars, MaxBpeText) \cup {<<101, 769>>}
TkTexts == ShortTexts \cup {<<c>> : c \in 0..127}
HfTexts == ShortTexts \cup {<<c>> : c \in {0, 10, 33, 48, 65, 126, 127}}

TkCountIdle ==
    /\ tk_text = <<>>
    /\ tk_result = None

HfIdle ==
    /\ hf = None
    /\ hf_text = <<>>
    /\ hf_result = None

HfMergeIdle ==
    /\ hm_initial = <<>>
    /\ hm_path = "none"
    /\ hm_count = None
    /\ hm_st = None
    /\ hm_pc = "idle"
    /\ hm_single = None
    /\ hm_joins = {}

\* No scenario has called a tokenizer.
CatIdle == cat_a = <<>> /\ cat_b = <<>> /\ cat_counts = <<>>
ParIdle == par_inputs = <<>> /\ par_tasks = <<>> /\ par_counts = <<>>
SelIdle ==
    /\ sel_artifacts = None
    /\ sel_embedded = None
    /\ sel_names = <<>>
    /\ sel_tokenizers = <<>>
    /\ sel_error = None
    /\ sel_pc = "idle"
HbIdle == hb_json = None /\ hb_blob = None /\ hb_pc = "idle"
BlIdle == bl_table = <<>> /\ bl_n = 0 /\ bl_b = 0
PtIdle ==
    /\ pt_steps = <<>>
    /\ pt_text = <<>>
    /\ pt_k = 0
    /\ pt_chunks = <<>>
    /\ pt_prev = <<>>
CallsIdle ==
    /\ HfMergeIdle /\ CatIdle /\ ParIdle /\ SelIdle /\ HbIdle /\ BlIdle
    /\ PtIdle

CountersIdle == TkCountIdle /\ HfIdle /\ CallsIdle

HfInit ==
    /\ hf \in {Some(tok) : tok \in HfTokenizers}
    /\ hf_text = <<>>
    /\ hf_result = None

\* One tokenizer of the three kinds.
CountersInit ==
    \/ TrieInit /\ FrozenIdle /\ TiktokenIdle /\ CountersIdle
    \/ TiktokenInit /\ FrozenIdle /\ TrieIdle /\ CountersIdle
    \/ /\ HfInit /\ FrozenIdle /\ TrieIdle /\ TiktokenIdle /\ TkCountIdle
       /\ CallsIdle

\* TiktokenTokenizer::count_tokens(t)
TkCountTokens(t) ==
    /\ tk_data # None
    /\ tk_result = None
    /\ tk_text' = t
    /\ tk_result' = Some(tk_count_tokens(RankTable, t))
    /\ UNCHANGED <<frozenVars, trieVars, tiktokenVars, hfVars, callVars>>

\* HfTokenizer::count_tokens(t)
HfCountTokens(t) ==
    /\ hf # None
    /\ hf_result = None
    /\ hf_text' = t
    /\ hf_result' = Some(hf_count_tokens(hf[1], t))
    /\ UNCHANGED <<hf, OthersThanHf>>

CountersNext ==
    \/ TrieNext
    \/ \E t \in TkTexts : TkCountTokens(t)
    \/ \E t \in HfTexts : HfCountTokens(t)

(***************************************************************************)
(* Claims about count_tokens at the boundaries.                            *)
(***************************************************************************)
TrieCounted == count_pc = "done"
TkCounted == tk_result # None
HfCounted == hf_result # None

\* C7: count_tokens("") returns 0 for the trie, for tiktoken and for HF,
\* whatever the tables, the normalizer and the special-token count are.
C7_EmptyTextCountsZero ==
    /\ (TrieCounted /\ text = <<>>) => result = Some(0)
    /\ (TkCounted /\ tk_text = <<>>) => tk_result = Some(0)
    /\ (HfCounted /\ hf_text = <<>>) => hf_result = Some(0)

\* HF has counted "" with a Prepend normalizer and special tokens to add.
C7_Witness ==
    /\ HfCounted
    /\ hf_text = <<>>
    /\ hf[1].normalizer.tag = "Prepend"
    /\ hf[1].post_add > 0
    /\ hf_result = Some(0)

\* C8 as stated: count_tokens of a one-byte input returns 1 for every
\* tokenizer, HF with any normalizer, pre-tokenizer and special-token count.
C8_OneByteCountsOne ==
    /\ (TrieCounted /\ Len(text) = 1) => result = Some(1)
    /\ (TkCounted /\ Len(AsBytes(tk_text)) = 1) => tk_result = Some(1)
    /\ (HfCounted /\ Len(AsBytes(hf_text)) = 1) => hf_result = Some(1)

\* The HF tokenizers that add nothing to a one-byte text: no special
\* token, a normalizer that keeps the text, no byte fallback after a
\* ByteLevel step.
AddsNothing(tok) ==
    /\ tok.post_add = 0
    /\ tok.normalizer.tag \in {"None", "Nfc"}
    /\ \/ ~tok.byte_fallback
       \/ \A i \in 1..Len(tok.pre_tokenizer) :
              tok.pre_tokenizer[i].tag # "ByteLevel"

\* C8, amended: count_tokens of a one-byte input returns 1 for the trie and
\* for tiktoken; for HF it returns 1 when the tokenizer adds no special
\* token, its normalizer is None or Nfc, and byte_fallback is off or the
\* pre-tokenizer has no ByteLevel step.
C8_OneByteCountsOneWhenNothingIsAdded ==
    /\ (TrieCounted /\ Len(text) = 1) => result = Some(1)
    /\ (TkCounted /\ Len(AsBytes(tk_text)) = 1) => tk_result = Some(1)
    /\ (HfCounted /\ Len(AsBytes(hf_text)) = 1 /\ AddsNothing(hf[1]))
           => hf_result = Some(1)

\* HF has counted a one-byte text that its Split step does not match and
\* its ByteLevel step maps to a two-byte char.
C8_Witness ==
    /\ HfCounted
    /\ hf_text = <<32>>
    /\ AddsNothing(hf[1])
    /\ hf[1].pre_tokenizer = <<SplitLetters, ByteLevel>>
    /\ hf_result = Some(1)

(***************************************************************************)
(* bpe_count on a chunk, and next to it bpe_merge_count run once over the  *)
(* whole of the chunk's initial tokens, one pop of the heap per step.      *)
(***************************************************************************)
\* The tokenizers that leave the text to the merges.
MergeTokenizers ==
    {tok \in HfTokenizers :
        /\ tok.post_add = 0
        /\ tok.normalizer.tag = "None"
        /\ tok.pre_tokenizer = <<>>}

Chunks == SeqUpTo({97, 98}, MaxChunk)

HfMergeInit ==
    /\ hf \in {Some(tok) : tok \in MergeTokenizers}
    /\ hf_text = <<>>
    /\ hf_result = None
    /\ CallsIdle

\* bpe_count(chunk) returns; the single pass over its initial tokens
\* starts (bpe_merge_count up to its `while let`).
HmBpeCount(chunk) ==
    /\ hf # None
    /\ hm_pc = "idle"
    /\ LET toks == InitialOf(hf[1], chunk)
       IN  /\ hm_initial' = toks
           /\ hm_path' = bpe_count_path(Len(toks))
           /\ hm_count' = Some(hf_bpe_count(hf[1], chunk))
           /\ IF Len(toks) <= 1
              THEN /\ hm_pc' = "done"
                   /\ hm_single' = Some(Len(toks))
                   /\ hm_st' = None
              ELSE /\ hm_pc' = "loop"
                   /\ hm_single' = None
                   /\ hm_st' = Some(HfLocals(hf[1].merges, toks))
    /\ hm_joins' = {}
    /\ UNCHANGED <<hfVars, OthersThanHfMerge>>

\* One pop of bpe_merge_count: an entry discarded, or parts i and next[i]
\* merged across the token position next[i].
HmPop ==
    /\ hm_pc = "loop"
    /\ hm_st[1].heap # <<>>
    /\ LET st == HfPopStep(hf[1].merges, TokenBuf(hm_initial),
                           Len(hm_initial), hm_st[1])
           i == Head(hm_st[1].heap)[2]
       IN  /\ hm_st' = Some(st)
           /\ hm_joins' = IF st.count # hm_st[1].count
                          THEN hm_joins \cup {hm_st[1].next[i]}
                          ELSE hm_joins
    /\ UNCHANGED <<hm_initial, hm_path, hm_count, hm_pc, hm_single, hfVars,
                   OthersThanHfMerge>>

\* The heap is empty: bpe_merge_count returns count.
HmReturn ==
    /\ hm_pc = "loop"
    /\ hm_st[1].heap = <<>>
    /\ hm_pc' = "done"
    /\ hm_single' = Some(hm_st[1].count)
    /\ UNCHANGED <<hm_initial, hm_path, hm_count, hm_st, hm_joins, hfVars,
                   OthersThanHfMerge>>

HfMergeNext ==
    \/ \E chunk \in Chunks : HmBpeCount(chunk)
    \/ HmPop
    \/ HmReturn

IsCut(tok, toks, j) ==
    /\ j >= 1
    /\ j < Len(toks)
    /\ \/ ~frozen_set_contains(tok.merge_left, AsBytes(toks[j]))
       \/ ~frozen_set_contains(tok.merge_right, AsBytes(toks[j + 1]))

ChunksOf(tok, str) ==
    apply_pre_tokenizer(tok.pre_tokenizer, apply_normalizer(tok.normalizer, str))

IsNonEmpty(chunk) == chunk # <<>>

\* The sum of bpe_count over a sequence of chunks.
RECURSIVE BpeSum(_, _)
BpeSum(tok, chunks) ==
    IF chunks = <<>> THEN 0
    ELSE hf_bpe_count(tok, Head(chunks)) + BpeSum(tok, Tail(chunks))

\* C13: for a non-empty input HF count_tokens returns the special-token
\* constant plus the sum of the BPE count of the non-empty chunks that the
\* normalizer and then the pre-tokenizer produce.
C13_ConstantPlusSumOverNonEmptyChunks ==
    (HfCounted /\ hf_text # <<>>) =>
        hf_result = Some(hf[1].post_add
                         + BpeSum(hf[1], SelectSeq(ChunksOf(hf[1], hf_text),
                                                   IsNonEmpty)))

\* HF has counted a text with a special token to add, whose chunks are
\* some empty and at least two not.
C13_Witness ==
    /\ HfCounted
    /\ hf[1].post_add > 0
    /\ \E i \in 1..Len(ChunksOf(hf[1], hf_text)) :
           ChunksOf(hf[1], hf_text)[i] = <<>>
    /\ Len(SelectSeq(ChunksOf(hf[1], hf_text), IsNonEmpty)) >= 2
    /\ hf_result[1] > hf[1].post_add

(***************************************************************************)
(* byte_fallback on a text that is one scalar of four UTF-8 bytes.         *)
(***************************************************************************)
\* U+10000, U+1F600, U+10FFFF
FourByteScalars == {65536, 128512, 1114111}

\* byte_fallback is on; U+1F600 is or is not a key of the vocabulary.
FallbackVocabs ==
    {[byte_fallback |-> TRUE, vocab |-> <<>>],
     [byte_fallback |-> TRUE, vocab |-> <<97, 128512>>]}

\* model.merges with the pair "<0xF0> <0x9F>", the first two bytes of
\* U+1F600.
ByteMerges == <<<<ByteToken(240), ByteToken(159)>>>>

FallbackTokenizers ==
    TokenizersOf(FallbackVocabs, {MergeTables(NoMerges, FALSE),
                                  MergeTables(ByteMerges, FALSE),
                                  MergeTables(ByteMerges, TRUE)})

FallbackInit ==
    /\ hf \in {Some(tok) : tok \in FallbackTokenizers}
    /\ hf_text = <<>>
    /\ hf_result = None
    /\ CallsIdle

FallbackNext == \E c \in FourByteScalars : HfCountTokens(<<c>>)

\* The text counted is one scalar of four UTF-8 bytes that is no key of
\* the vocabulary, and byte_fallback is on.
CountedFallbackScalar ==
    /\ HfCounted
    /\ hf[1].byte_fallback
    /\ Len(hf_text) = 1
    /\ Len(Utf8(hf_text[1])) = 4
    /\ \A i \in 1..Len(hf[1].vocab) : hf[1].vocab[i] # hf_text[1]

\* C14 as stated: with byte_fallback, count_tokens of one four-byte scalar
\* that is not in the vocabulary returns 4.
C14_FallbackScalarCountsFour ==
    CountedFallbackScalar => hf_result = Some(4)

\* No merge of the table joins two neighbours among the tokens.
NoMergeAmong(tok, toks) ==
    \A i \in 1..(Len(toks) - 1) :
        frozen_map_get_pair(tok.merges, AsBytes(toks[i]), AsBytes(toks[i + 1]))
            = None

\* C14, amended: with byte_fallback, one four-byte scalar that is not in
\* the vocabulary becomes four <0xHH> tokens, one per UTF-8 byte; and
\* count_tokens returns 4 when no special token is added, the normalizer
\* is None, the pre-tokenizer has no ByteLevel step and the table merges no
\* two neighbours among the four tokens.
C14_FallbackScalarIsFourByteTokens ==
    CountedFallbackScalar =>
        /\ initial_tokens(hf[1], hf_text)
               = [i \in 1..4 |-> ByteToken(Utf8(hf_text[1])[i])]
        /\ (/\ hf[1].post_add = 0
            /\ hf[1].normalizer.tag = "None"
            /\ \A i \in 1..Len(hf[1].pre_tokenizer) :
                   hf[1].pre_tokenizer[i].tag # "ByteLevel"
            /\ NoMergeAmong(hf[1], initial_tokens(hf[1], hf_text)))
               => hf_result = Some(4)

\* U+10000 has been counted as 4 by a tokenizer with a Split step whose
\* vocabulary has other keys.
C14_Witness ==
    /\ CountedFallbackScalar
    /\ hf_text = <<65536>>
    /\ hf[1].vocab # <<>>
    /\ hf[1].post_add = 0
    /\ hf[1].normalizer.tag = "None"
    /\ hf[1].pre_tokenizer = <<SplitSpaces>>
    /\ hf_result = Some(4)

(***************************************************************************)
(* count_tokens of the trie on two texts and on their concatenation.       *)
(***************************************************************************)
T_aba == <<0, 1, 0>>
T_abca == <<0, 1, 2, 0>>

\* Vocabularies with and without a token that reaches over the end of a
\* text into the next one.
ConcatVocabularies ==
    {<<T_a, T_b>>, <<T_ab, T_a, T_b>>, <<T_a, T_b, T_aba>>,
     <<T_abc, T_abca>>}

ConcatBytes == {0, 1}
ConcatTexts == SeqUpTo(ConcatBytes, MaxConcat) \cup {T_abc}

\* `while pos < bytes.len() { pos += self.match_len(bytes, pos); count += 1 }`
RECURSIVE CountLoop(_, _, _, _)
CountLoop(d, bytes, p, n) ==
    IF p >= Len(bytes) THEN n
    ELSE CountLoop(d, bytes, p + match_len(d, bytes, p), n + 1)

\* DATrie::count_tokens
da_count_tokens(d, bytes) ==
    IF bytes = <<>> THEN 0 ELSE CountLoop(d, bytes, 0, 0)

ConcatInit ==
    /\ vocab \in ConcatVocabularies
    /\ token_i = 0
    /\ node_children = VecNew(<<>>, 1)
    /\ node_terminal = VecNew(FALSE, 1)
    /\ base = <<>>
    /\ check = <<>>
    /\ occupied = <<>>
    /\ da_pos = <<>>
    /\ queue = <<>>
    /\ trie_pc = "insert"
    /\ trie_bin = None
    /\ CountIdle

\* count_tokens(a)
CatCountA(a) ==
    /\ trie_pc = "done"
    /\ cat_counts = <<>>
    /\ cat_a' = a
    /\ cat_counts' = <<da_count_tokens(DATrie, a)>>
    /\ UNCHANGED <<cat_b, trieVars, OthersThanCat>>

\* count_tokens(b)
CatCountB(b) ==
    /\ Len(cat_counts) = 1
    /\ cat_b' = b
    /\ cat_counts' = Append(cat_counts, da_count_tokens(DATrie, b))
    /\ UNCHANGED <<cat_a, trieVars, OthersThanCat>>

\* count_tokens(a + b)
CatCountBoth ==
    /\ Len(cat_counts) = 2
    /\ cat_counts' = Append(cat_counts, da_count_tokens(DATrie, cat_a \o cat_b))
    /\ UNCHANGED <<cat_a, cat_b, trieVars, OthersThanCat>>

ConcatNext ==
    \/ TrieBuildNext
    \/ \E a \in ConcatTexts : CatCountA(a)
    \/ \E b \in ConcatTexts : CatCountB(b)
    \/ CatCountBoth

\* C15: count_tokens(a + b) is within 1 of count_tokens(a) +
\* count_tokens(b); for the trie count_tokens(s + s) is 2 count_tokens(s)
\* or one less.
C15_ConcatenationWithinOne ==
    Len(cat_counts) = 3 =>
        /\ cat_counts[3] >= (cat_counts[1] + cat_counts[2]) - 1
        /\ cat_counts[3] <= (cat_counts[1] + cat_counts[2]) + 1
        /\ cat_a = cat_b =>
               cat_counts[3] \in {2 * cat_counts[1], (2 * cat_counts[1]) - 1}

(***************************************************************************)
(* main: count_tokens of one tokenizer called on every input by the        *)
(* threads of par_iter.  A call steps from one match of find_iter to the   *)
(* next; its locals are its own.                                           *)
(***************************************************************************)
\* "", "ab", "a b"
ParTexts == {<<>>, <<97, 98>>, <<97, 32, 98>>}

\* The data of the tokenizer: "ab" as the builder emits it, and "ab", "bb"
\* on the probe path.
ParTables ==
    {build_frozen_table(<<K_ab>>, <<<<0, 0>>>>),
     ProbeOrderTable(<<K_ab, K_bb>>, <<<<0, 0>>, <<0, 1>>>>)}

\* `let use_parallel = inputs.len() > 1`
ParInputs == {ins \in SeqUpTo(ParTexts, MaxInputs) : Len(ins) > 1}

NotStarted == [pc |-> "idle", ms |-> <<>>, total |-> 0]

ParInit ==
    /\ tk_data \in {Some(t) : t \in ParTables}
    /\ BpeIdle
    /\ par_inputs \in ParInputs
    /\ par_tasks = [i \in 1..Len(par_inputs) |-> NotStarted]
    /\ par_counts = [i \in 1..Len(par_inputs) |-> None]
    /\ HfMergeIdle
    /\ CatIdle
    /\ SelIdle
    /\ HbIdle
    /\ BlIdle
    /\ PtIdle

\* The calls that a thread is running.
Running == {i \in 1..Len(par_tasks) : par_tasks[i].pc = "loop"}

\* collect() of an indexed parallel iterator: the value of the i-th input
\* is the i-th element.
CollectSlotByCompletion(i) ==
    1 + Cardinality({j \in 1..Len(par_counts) : par_counts[j] # None})

CollectSlot(i) == i

\* A thread takes input i and enters count_tokens: the early return for the
\* empty text, or `total = 0` and the iterator.
ParStart(i) ==
    /\ par_tasks[i].pc = "idle"
    /\ Cardinality(Running) < Threads
    /\ IF par_inputs[i] = <<>>
       THEN /\ par_tasks' = [par_tasks EXCEPT ![i].pc = "done"]
            /\ par_counts' = [par_counts EXCEPT ![CollectSlot(i)] = Some(0)]
       ELSE /\ par_tasks' = [par_tasks EXCEPT ![i] =
                                [pc |-> "loop",
                                 ms |-> O200kFindIter(par_inputs[i], 0),
                                 total |-> 0]]
            /\ UNCHANGED par_counts
    /\ UNCHANGED <<par_inputs, tiktokenVars, OthersThanPar>>

\* `total += self.bpe_count(m.as_str().as_bytes())` for the next match.
ParPiece(i) ==
    /\ par_tasks[i].pc = "loop"
    /\ par_tasks[i].ms # <<>>
    /\ LET m == Head(par_tasks[i].ms)
       IN  par_tasks' =
               [par_tasks EXCEPT
                   ![i].ms = Tail(@),
                   ![i].total =
                       @ + tk_bpe_count(RankTable,
                                        AsBytes(Slice(par_inputs[i], m[1], m[2])))]
    /\ UNCHANGED <<par_inputs, par_counts, tiktokenVars, OthersThanPar>>

\* The iterator is over: total is returned and collected.
ParReturn(i) ==
    /\ par_tasks[i].pc = "loop"
    /\ par_tasks[i].ms = <<>>
    /\ par_tasks' = [par_tasks EXCEPT ![i].pc = "done"]
    /\ par_counts' = [par_counts EXCEPT
                         ![CollectSlot(i)] = Some(par_tasks[i].total)]
    /\ UNCHANGED <<par_inputs, tiktokenVars, OthersThanPar>>

ParNext ==
    \E i \in 1..Len(par_inputs) : ParStart(i) \/ ParPiece(i) \/ ParReturn(i)

\* C16: under every interleaving of the calls of par_iter, the count
\* collected for an input, at the position of the input, is the count a
\* lone call of count_tokens returns for it; and no step writes the
\* embedded table.
C16_ParallelCallsAreSequential ==
    /\ [](\A i \in 1..Len(par_inputs) :
              /\ par_tasks[i].pc = "done" =>
                     par_counts[i]
                         = Some(tk_count_tokens(RankTable, par_inputs[i]))
              /\ par_tasks[i].pc # "done" => par_counts[i] = None)
    /\ [][tk_data' = tk_data]_vars

\* A later input has been counted while the call on an earlier one, of a
\* different count, is between two matches.
C16_Witness ==
    \E i, j \in 1..Len(par_inputs) :
        /\ i < j
        /\ par_tasks[i].pc = "loop"
        /\ par_tasks[i].total > 0
        /\ par_tasks[i].ms # <<>>
        /\ par_tasks[j].pc = "done"
        /\ par_counts[j] # None
        /\ par_counts[j] # Some(tk_count_tokens(RankTable, par_inputs[i]))

(***************************************************************************)
(* Model selection: build_frozen_models records which blobs are embedded,  *)
(* main checks the names it is given and loads one tokenizer per name.     *)
(***************************************************************************)
MODEL_NAMES ==
    <<"claude", "openai", "gemini", "deepseek", "qwen", "llama", "mistral",
      "grok", "minimax">>

HF_MODELS ==
    <<"gemini", "deepseek", "qwen", "llama", "mistral", "grok", "minimax">>

Range(f) == {f[i] : i \in DOMAIN f}

\* The names embedded_models.rs has a constant for.
EmbeddedNames == {"openai"} \cup Range(HF_MODELS)

\* Names the user may give that are no model names.
OtherNames == {"gpt", "Claude"}

\* The regex of the Split step of a tokenizer.json: one that
\* fancy_regex::Regex::new compiles and one that it rejects.
SplitPatterns == {"\\s+", "("}

\* What TOKEN_COUNT_MODELS holds for a model: nothing, or its file; of a
\* tokenizer.json the model keeps the pattern of its Split step.
Absent == [exists |-> FALSE]
ArtifactsOf(name) ==
    IF name = "openai" THEN {Absent, [exists |-> TRUE]}
    ELSE {Absent} \cup {[exists |-> TRUE, pattern |-> pt] : pt \in SplitPatterns}

ModelsDirs ==
    {None} \cup {Some(dir) : dir \in {d \in [EmbeddedNames ->
                                                 UNION {ArtifactsOf(nm) :
                                                        nm \in EmbeddedNames}] :
                                          \A nm \in EmbeddedNames :
                                              d[nm] \in ArtifactsOf(nm)}}

\* build_tiktoken_frozen / build_hf_frozen: serialize_pre_tokenizer writes
\* the pattern as it is in the file.
BlobOf(name, artifact) ==
    IF name = "openai" THEN [kind |-> "tiktoken"]
    ELSE [kind |-> "hf", pattern |-> artifact.pattern]

\* build_frozen_models: `pub const X: Option<&[u8]>` for every name.
build_frozen_models(models_dir) ==
    [nm \in EmbeddedNames |->
        IF models_dir = None THEN None
        ELSE IF models_dir[1][nm].exists
             THEN Some(BlobOf(nm, models_dir[1][nm]))
             ELSE None]

embedded_data(name) ==
    IF name \in EmbeddedNames THEN sel_embedded[1][name] ELSE None

\* fancy_regex::Regex::new(&pattern) of deserialize_pre_tokenizer.
RegexCompiles(pattern) == pattern # "("

\* HfTokenizer::from_frozen on a blob of the builder.
from_frozen(blob) ==
    IF RegexCompiles(blob.pattern) THEN [ok |-> TRUE, tok |-> "Hf"]
    ELSE [ok |-> FALSE, error |-> "Error loading model"]

\* load_model: the tokenizer, or the message main exits with.
load_model(name) ==
    IF name = "claude" THEN [ok |-> TRUE, tok |-> "Claude"]
    ELSE IF embedded_data(name) = None
         THEN [ok |-> FALSE, error |-> "model not embedded"]
         ELSE IF name = "openai" THEN [ok |-> TRUE, tok |-> "Tiktoken"]
              ELSE from_frozen(embedded_data(name)[1])

SelInit ==
    /\ sel_artifacts \in ModelsDirs
    /\ sel_embedded = None
    /\ sel_names = <<>>
    /\ sel_tokenizers = <<>>
    /\ sel_error = None
    /\ sel_pc = "build"

\* The build script runs.
BuildFrozenModels ==
    /\ sel_pc = "build"
    /\ sel_embedded' = Some(build_frozen_models(sel_artifacts))
    /\ sel_pc' = "main"
    /\ UNCHANGED <<sel_artifacts, sel_names, sel_tokenizers, sel_error,
                   OthersThanSel>>

\* main up to the check of the names: model_names is the one name of -m,
\* or every name with --all.
CheckNames(names) ==
    /\ sel_pc = "main"
    /\ sel_names' = names
    /\ IF \E i \in 1..Len(names) : names[i] \notin Range(MODEL_NAMES)
       THEN sel_pc' = "exit" /\ sel_error' = Some("unknown model")
       ELSE sel_pc' = "load" /\ UNCHANGED sel_error
    /\ UNCHANGED <<sel_artifacts, sel_embedded, sel_tokenizers, OthersThanSel>>

\* One iteration of `for &m in &model_names { let t = load_model(m); .. }`.
LoadModel ==
    /\ sel_pc = "load"
    /\ Len(sel_tokenizers) < Len(sel_names)
    /\ LET m == sel_names[Len(sel_tokenizers) + 1]
           t == load_model(m)
       IN  IF t.ok
           THEN /\ sel_tokenizers' = Append(sel_tokenizers, <<m, t.tok>>)
                /\ UNCHANGED <<sel_pc, sel_error>>
           ELSE /\ sel_pc' = "exit"
                /\ sel_error' = Some(t.error)
                /\ UNCHANGED sel_tokenizers
    /\ UNCHANGED <<sel_artifacts, sel_embedded, sel_names, OthersThanSel>>

\* Every name has its tokenizer.
LoadDone ==
    /\ sel_pc = "load"
    /\ Len(sel_tokenizers) = Len(sel_names)
    /\ sel_pc' = "count"
    /\ UNCHANGED <<sel_artifacts, sel_embedded, sel_names, sel_tokenizers,
                   sel_error, OthersThanSel>>

SelNext ==
    \/ BuildFrozenModels
    \/ \E nm \in Range(MODEL_NAMES) \cup OtherNames : CheckNames(<<nm>>)
    \/ CheckNames(MODEL_NAMES)
    \/ LoadModel
    \/ LoadDone

\* The name whose load_model made main exit.
FailedName == sel_names[Len(sel_tokenizers) + 1]

\* C17: a name outside the nine is rejected as unknown before any
\* tokenizer is loaded; "claude" always yields the trie; any other known
\* name yields its tokenizer if and only if its blob was recorded as
\* present, and otherwise "model not embedded": there is no other outcome.
C17_ThreeOutcomes ==
    /\ sel_error = Some("unknown model") =>
           /\ sel_tokenizers = <<>>
           /\ \E i \in 1..Len(sel_names) : sel_names[i] \notin Range(MODEL_NAMES)
    /\ sel_error \in {None, Some("unknown model"), Some("model not embedded")}
    /\ \A i \in 1..Len(sel_tokenizers) :
           /\ sel_tokenizers[i][1] = sel_names[i]
           /\ sel_tokenizers[i][1] = "claude" <=> sel_tokenizers[i][2] = "Claude"
           /\ sel_tokenizers[i][1] = "openai" <=> sel_tokenizers[i][2] = "Tiktoken"
           /\ sel_tokenizers[i][1] # "claude" =>
                  embedded_data(sel_tokenizers[i][1]) # None
    /\ (sel_pc = "exit" /\ sel_error # Some("unknown model")) =>
           /\ FailedName # "claude"
           /\ embedded_data(FailedName) = None
           /\ sel_error = Some("model not embedded")

(***************************************************************************)
(* build_hf_frozen: the normalizer and the pre-tokenizer of a              *)
(* tokenizer.json written into the blob.  A JSON object is a record, a     *)
(* string the sequence of its bytes, a missing or null value is Null.      *)
(***************************************************************************)
NORM_NONE == 0
NORM_REPLACE == 1
NORM_PREPEND == 2
NORM_NFC == 3
NORM_SEQUENCE == 4
STEP_SPLIT == 1
STEP_BYTE_LEVEL == 2

Null == [type |-> "null"]

\* (n as u32).to_le_bytes(), for n below 2^16
U32Le(n) == <<n % 256, n \div 256, 0, 0>>

write_length_prefixed_str(str) == U32Le(Len(str)) \o str

\* The normalizers of a file that are no Sequence; "Lowercase" and
\* "Strip" are types the builder has no arm for.
PlainNormalizers ==
    {[type |-> "Replace", pattern |-> <<97>>, content |-> <<98>>],
     [type |-> "Prepend", prepend |-> <<95>>],
     [type |-> "NFC"], [type |-> "Lowercase"], [type |-> "Strip"]}

JsonNormalizers ==
    {Null} \cup PlainNormalizers
        \cup {[type |-> "Sequence", normalizers |-> ns] :
                 ns \in SeqUpTo(PlainNormalizers, MaxSteps)}

\* "Whitespace" and "Digits" are types the builder has no arm for.
PlainPreTokenizers ==
    {[type |-> "Split", pattern |-> <<97>>], [type |-> "ByteLevel"],
     [type |-> "Whitespace"], [type |-> "Digits"]}

JsonPreTokenizers ==
    {Null} \cup PlainPreTokenizers
        \cup {[type |-> "Sequence", pretokenizers |-> ps] :
                 ps \in SeqUpTo(PlainPreTokenizers, MaxSteps)}

\* The files: with or without the "model" object the builder expects.
TokenizerJsons ==
    [has_model : BOOLEAN, normalizer : JsonNormalizers,
     pre_tokenizer : JsonPreTokenizers]

RECURSIVE serialize_normalizer(_)
\* `for item in arr { serialize_normalizer(blob, Some(item)); }`
RECURSIVE SerializeEach(_)
SerializeEach(arr) ==
    IF arr = <<>> THEN <<>>
    ELSE serialize_normalizer(Head(arr)) \o SerializeEach(Tail(arr))

\* The bytes serialize_normalizer pushes.
serialize_normalizer(val) ==
    IF val = Null THEN <<NORM_NONE>>
    ELSE CASE val.type = "Replace" ->
                  <<NORM_REPLACE>> \o write_length_prefixed_str(val.pattern)
                      \o write_length_prefixed_str(val.content)
           [] val.type = "Prepend" ->
                  <<NORM_PREPEND>> \o write_length_prefixed_str(val.prepend)
           [] val.type = "NFC" -> <<NORM_NFC>>
           [] val.type = "Sequence" ->
                  IF val.normalizers = <<>> THEN <<NORM_NONE>>
                  ELSE <<NORM_SEQUENCE>> \o U32Le(Len(val.normalizers))
                           \o SerializeEach(val.normalizers)
           [] OTHER -> <<NORM_NONE>>

\* `for step in &valid_steps { match t { .. } }`
RECURSIVE SerializeSteps(_)
SerializeSteps(steps) ==
    IF steps = <<>> THEN <<>>
    ELSE (IF Head(steps).type = "Split"
          THEN <<STEP_SPLIT>> \o write_length_prefixed_str(Head(steps).pattern)
          ELSE <<STEP_BYTE_LEVEL>>)
             \o SerializeSteps(Tail(steps))

IsValidStep(step) == step.type \in {"Split", "ByteLevel"}

\* The bytes serialize_pre_tokenizer pushes.
serialize_pre_tokenizer(val) ==
    IF val = Null THEN U32Le(0)
    ELSE LET steps == IF val.type = "Sequence" THEN val.pretokenizers
                      ELSE IF val.type \in {"ByteLevel", "Split"} THEN <<val>>
                      ELSE <<>>
             valid_steps == SelectSeq(steps, IsValidStep)
         IN  U32Le(Len(valid_steps)) \o SerializeSteps(valid_steps)

HbInit ==
    /\ hb_json \in {Some(js) : js \in TokenizerJsons}
    /\ hb_blob = None
    /\ hb_pc = "start"

\* build_hf_frozen(path): root.get("model").expect("missing model")
\* panics, or the blob is returned and build_frozen_models writes it.
BuildHfFrozen ==
    /\ hb_pc = "start"
    /\ IF ~hb_json[1].has_model
       THEN hb_pc' = "aborted" /\ UNCHANGED hb_blob
       ELSE /\ hb_pc' = "written"
            /\ hb_blob' = Some([normalizer |->
                                    serialize_normalizer(hb_json[1].normalizer),
                                pre_tokenizer |->
                                    serialize_pre_tokenizer(
                                        hb_json[1].pre_tokenizer)])
    /\ UNCHANGED <<hb_json, OthersThanHb>>

HbNext == BuildHfFrozen

NormalizerTypes == {"Replace", "Prepend", "NFC", "Sequence"}
PreTokenizerTypes == {"Split", "ByteLevel", "Sequence"}

\* The file has a normalizer or a pre-tokenizer, at the top or inside a
\* Sequence, of a type the builder has no arm for.
HasUnknownType(js) ==
    \/ js.normalizer # Null /\ js.normalizer.type \notin NormalizerTypes
    \/ /\ js.normalizer # Null
       /\ js.normalizer.type = "Sequence"
       /\ \E i \in 1..Len(js.normalizer.normalizers) :
              js.normalizer.normalizers[i].type \notin NormalizerTypes
    \/ js.pre_tokenizer # Null /\ js.pre_tokenizer.type \notin PreTokenizerTypes
    \/ /\ js.pre_tokenizer # Null
       /\ js.pre_tokenizer.type = "Sequence"
       /\ \E i \in 1..Len(js.pre_tokenizer.pretokenizers) :
              js.pre_tokenizer.pretokenizers[i].type \notin PreTokenizerTypes

\* C18: when the file has a normalizer or pre-tokenizer of a type the
\* builder does not know, the build aborts and emits no blob.
C18_UnknownTypeAbortsTheBuild ==
    (hb_pc \in {"written", "aborted"} /\ HasUnknownType(hb_json[1])) =>
        hb_pc = "aborted" /\ hb_blob = None

(***************************************************************************)
(* byte_to_char_table as its loop: one byte value per step.  table is the  *)
(* sequence of the entries written so far, table[b + 1] for byte b.        *)
(***************************************************************************)
\* `for b in 0u16..256`
ByteValues == 256

BlInit ==
    /\ bl_table = <<>>
    /\ bl_n = 0
    /\ bl_b = 0

\* One iteration of the loop.
ByteToCharStep ==
    /\ bl_b < ByteValues
    /\ IF MapsToItself(bl_b)
       THEN bl_table' = Append(bl_table, bl_b) /\ UNCHANGED bl_n
       ELSE bl_table' = Append(bl_table, 256 + bl_n) /\ bl_n' = bl_n + 1
    /\ bl_b' = bl_b + 1
    /\ UNCHANGED OthersThanBl

BlNext == ByteToCharStep

\* The bytes 0x21-0x7E, 0xA1-0xAC and 0xAE-0xFF.
SelfMapped == (33..126) \cup (161..172) \cup (174..255)

\* C19: the table maps the 256 byte values injectively: the bytes
\* 0x21-0x7E, 0xA1-0xAC and 0xAE-0xFF to themselves and the remaining
\* bytes, exactly 68, in ascending order to U+0100 .. U+0143.
C19_ByteTableIsInjective ==
    bl_b = ByteValues =>
        /\ Len(bl_table) = 256
        /\ \A x, y \in 0..255 : bl_table[x + 1] = bl_table[y + 1] => x = y
        /\ \A x \in SelfMapped : bl_table[x + 1] = x
        /\ Cardinality((0..255) \ SelfMapped) = 68
        /\ \A x \in (0..255) \ SelfMapped :
               bl_table[x + 1]
                   = 256 + Cardinality({y \in (0..255) \ SelfMapped : y < x})
        /\ {bl_table[x + 1] : x \in (0..255) \ SelfMapped} = 256..323
        /\ \A x \in 0..255 : bl_table[x + 1] = byte_to_char_table(x)

\* The loop is over and n has counted the 68 bytes; 0xAD, the last of
\* them, is U+0143.
C19_Witness ==
    /\ bl_b = ByteValues
    /\ bl_n = 68
    /\ bl_table[173 + 1] = 323

(***************************************************************************)
(* apply_pre_tokenizer as its loop over the steps: one step per action.    *)
(***************************************************************************)
PtChars == {97, 32}
PtTexts == SeqUpTo(PtChars, MaxPtText)

PtSteps == {SplitEmpty, SplitSpaces, SplitLetters, ByteLevel}

\* PreTokenizer::Sequence(steps); <<>> stands for PreTokenizer::None too.
PtSequences == SeqUpTo(PtSteps, MaxSteps)

\* `let mut chunks = vec![text.to_string()]`
PtInit ==
    /\ pt_steps \in PtSequences
    /\ pt_text \in PtTexts
    /\ pt_k = 0
    /\ pt_chunks = <<pt_text>>
    /\ pt_prev = <<>>

\* One iteration of `for step in steps`, to `chunks = next_chunks`.
ApplyStep ==
    /\ pt_k < Len(pt_steps)
    /\ pt_chunks' = StepLoop(pt_steps[pt_k + 1], pt_chunks, 1, <<>>)
    /\ pt_prev' = pt_chunks
    /\ pt_k' = pt_k + 1
    /\ UNCHANGED <<pt_steps, pt_text, OthersThanPt>>

PtNext == ApplyStep

\* The chunks of a list of lists of chunks, in order.
RECURSIVE Flatten(_)
Flatten(lists) ==
    IF lists = <<>> THEN <<>> ELSE Head(lists) \o Flatten(Tail(lists))

\* C20: each step is applied to the current chunks and gives the next: a
\* ByteLevel step gives one encoded chunk per current chunk, in order,
\* whatever their number; a Split step gives the split of each current
\* chunk, in order; and the chunks after the last step are what
\* apply_pre_tokenizer returns.
C20_EachStepMapsTheCurrentChunks ==
    /\ pt_k > 0 =>
           IF pt_steps[pt_k].tag = "ByteLevel"
           THEN /\ Len(pt_chunks) = Len(pt_prev)
                /\ \A j \in 1..Len(pt_prev) :
                       pt_chunks[j] = encode_bytes(AsBytes(pt_prev[j]))
           ELSE pt_chunks
                    = Flatten([j \in 1..Len(pt_prev) |->
                                  split_isolated(pt_steps[pt_k].regex,
                                                 pt_prev[j])])
    /\ pt_k = Len(pt_steps) =>
           pt_chunks = apply_pre_tokenizer(pt_steps, pt_text)

\* A ByteLevel step has encoded three chunks, the second one a space.
C20_Witness ==
    /\ pt_k > 0
    /\ pt_steps[pt_k].tag = "ByteLevel"
    /\ Len(pt_prev) = 3
    /\ Len(pt_chunks) = 3
    /\ pt_chunks[2] = <<288>>

\* A ByteLevel step has been given no chunk and has given none.
C20_WitnessNoChunk ==
    /\ pt_k > 0
    /\ pt_steps[pt_k].tag = "ByteLevel"
    /\ pt_prev = <<>>
    /\ pt_chunks = <<>>

(***************************************************************************)
(* split_isolated, seen from the Split steps of apply_pre_tokenizer.       *)
(***************************************************************************)
\* The gap before match k of ms (k = Len(ms) + 1: the text after the last
\* match), as <<from, to>>.
GapBefore(str, ms, k) ==
    <<IF k = 1 THEN 0 ELSE ms[k - 1][2],
      IF k > Len(ms) THEN Len(str) ELSE ms[k][1]>>

\* The gaps that are not empty and the matches, as <<from, to, kind>>.
Isolated(regex, str) ==
    LET ms == FindIter(regex, str)
    IN  {<<ms[k][1], ms[k][2], "match">> : k \in 1..Len(ms)}
            \cup {<<GapBefore(str, ms, k)[1], GapBefore(str, ms, k)[2], "gap">> :
                    k \in {j \in 1..(Len(ms) + 1) :
                             GapBefore(str, ms, j)[1]
                                 < GapBefore(str, ms, j)[2]}}

\* The chunks of a set of ranges of str, from left to right (an empty match
\* at p comes before what starts at p).
RECURSIVE InOrder(_, _)
InOrder(str, ranges) ==
    IF ranges = {} THEN <<>>
    ELSE LET first ==
                 CHOOSE r \in ranges :
                     \A q \in ranges :
                         \/ r[1] < q[1]
                         \/ r[1] = q[1] /\ r[2] <= q[2]
         IN  <<Slice(str, first[1], first[2])>>
                 \o InOrder(str, ranges \ {first})

\* The chars of a list of chunks.
RECURSIVE Concat(_)
Concat(chunks) ==
    IF chunks = <<>> THEN <<>> ELSE Head(chunks) \o Concat(Tail(chunks))

\* C21: a Split step gives, for each chunk, its gaps and its matches from
\* left to right, both kept, and no empty gap; the chunks of each chunk,
\* put together, are the chunk.
C21_SplitKeepsGapsAndMatches ==
    (pt_k > 0 /\ pt_steps[pt_k].tag = "Split") =>
        /\ pt_chunks
               = Flatten([j \in 1..Len(pt_prev) |->
                             InOrder(pt_prev[j],
                                     Isolated(pt_steps[pt_k].regex,
                                              pt_prev[j]))])
        /\ Concat(pt_chunks) = Concat(pt_prev)
        /\ \A j \in 1..Len(pt_prev) :
               Concat(split_isolated(pt_steps[pt_k].regex, pt_prev[j]))
                   = pt_prev[j]

\* A Split on runs of spaces has cut "a a" into the gap "a", the match " "
\* and the gap "a" after the last match.
C21_Witness ==
    /\ pt_k = 1
    /\ pt_steps[1] = SplitSpaces
    /\ pt_prev = <<<<97, 32, 97>>>>
    /\ pt_chunks = <<<<97>>, <<32>>, <<97>>>>

(***************************************************************************)
(* The tiktoken bpe_count on the pieces that merge nothing.                *)
(***************************************************************************)
\* The keys the rank table holds.
StoredKeys(t) ==
    {Stored(t, t.slots[s]) : s \in {q \in 1..t.num_slots :
                                       t.slots[q].hash # ZeroHash}}

\* No two adjacent bytes of the piece are a key of the rank table.
NoKnownMerge(t, pc) ==
    \A i \in 1..(Len(pc) - 1) : <<pc[i], pc[i + 1]>> \notin StoredKeys(t)

\* C22: bpe_count returns 0 for the empty piece, 1 for a piece of one
\* byte, and the length of the piece in bytes when no two adjacent parts
\* are a known merge.
C22_CountOfUnmergeablePieces ==
    bpe_pc = "done" =>
        /\ piece = <<>> => bpe_result = Some(0)
        /\ Len(piece) = 1 => bpe_result = Some(1)
        /\ NoKnownMerge(RankTable, piece) => bpe_result = Some(Len(piece))

\* "ba" with "ab" and "bb" in the table: no merge, two tokens.
C22_Witness ==
    /\ bpe_pc = "done"
    /\ piece = <<98, 97>>
    /\ K_ab \in StoredKeys(RankTable)
    /\ K_bb \in StoredKeys(RankTable)
    /\ bpe_result = Some(2)

(***************************************************************************)
(* The reads of the runtime over an arbitrary trie.bin.                    *)
(***************************************************************************)
\* The read is of a cell of its array.
InsideArrays(d, read) == read[2] >= 0 /\ read[2] < d.array_size

\* The states a transition may be asked from: the cells, the first index
\* beyond them, and an index far beyond.
StatesAsked(d) == 0..d.array_size \cup {HugeBase}

\* C23: whatever base, check and root hold, every transition reads only
\* cells of the arrays; a state or a target outside the arrays gives no
\* transition; and count_tokens, stepping one byte where there is no
\* transition, returns a count (the number of bytes when the root itself
\* is outside the arrays).
C23_CorruptTrieReadsInsideTheArrays ==
    /\ \A s \in StatesAsked(DATrie), b \in CorruptTextBytes :
           /\ \A k \in 1..Len(TransitionReads(DATrie, s, b)) :
                  InsideArrays(DATrie, TransitionReads(DATrie, s, b)[k])
           /\ s >= DATrie.array_size => transition(DATrie, s, b) = None
           /\ (s < DATrie.array_size
                   /\ DATrie.base[s] + b >= DATrie.array_size)
                  => transition(DATrie, s, b) = None
           /\ transition(DATrie, s, b) # None
                  => /\ Len(TransitionReads(DATrie, s, b)) = 2
                     /\ transition(DATrie, s, b)[1][1] < DATrie.array_size
    /\ (count_pc = "loop" /\ pos < Len(text))
           => /\ \A k \in 1..Len(MatchLenReads(DATrie, text, pos)) :
                     InsideArrays(DATrie, MatchLenReads(DATrie, text, pos)[k])
              /\ match_len(DATrie, text, pos) \in 1..(Len(text) - pos)
              /\ transition(DATrie, DATrie.root, text[pos + 1]) = None
                     => match_len(DATrie, text, pos) = 1
    /\ count_pc = "done"
           => /\ result = Some(count)
              /\ DATrie.root >= DATrie.array_size => count = Len(text)

\* One cell, whose base points beyond the arrays, and the root on it: the
\* transition reads base[0] only, and "ab" is counted as two one-byte
\* steps.
C23_Witness ==
    /\ count_pc = "done"
    /\ DATrie.array_size = 1
    /\ DATrie.root = 0
    /\ DATrie.base[0] = HugeBase
    /\ TransitionReads(DATrie, 0, 1) = <<<<"base", 0>>>>
    /\ text = <<0, 1>>
    /\ result = Some(2)

\* The root is beyond the arrays: no cell is read.
C23_WitnessRootOutside ==
    /\ count_pc = "done"
    /\ DATrie.root = DATrie.array_size
    /\ TransitionReads(DATrie, DATrie.root, 0) = <<>>
    /\ text = <<0, 0, 0>>
    /\ result = Some(3)

(***************************************************************************)
(* The capacity of the frozen table.                                       *)
(***************************************************************************)
\* Largest number of entries the slot count is computed for.
MaxCount == 48

\* m has no odd divisor but 1.
IsPowerOfTwo(m) == m >= 1 /\ \A q \in 2..m : (m % q = 0) => (q % 2 = 0)

\* The slots the builder has written.
Occupied == {s \in 1..Len(slots) : slots[s].hash # ZeroHash}

\* C24: the slot count is a power of two, at least 4 and at least
\* ceil(4n/3); at most three quarters of the slots are ever written, so
\* one slot at least stays empty, and every insertion finds an empty slot
\* and writes it.
C24_CapacityLeavesAnEmptySlot ==
    /\ [](/\ \A n \in 0..MaxCount :
                 /\ IsPowerOfTwo(NumSlots(n))
                 /\ NumSlots(n) >= 4
                 /\ 3 * NumSlots(n) >= 4 * n
                 /\ NumSlots(n) > n
          /\ slots # <<>>
                 => /\ Len(slots) = NumSlots(Len(keys))
                    /\ Cardinality(Occupied) = entry_i
                    /\ 4 * Cardinality(Occupied) <= 3 * Len(slots)
                    /\ Cardinality(Occupied) < Len(slots)
          /\ table # None
                 => /\ Blob.num_slots = NumSlots(Len(keys))
                    /\ \E s \in 1..Blob.num_slots :
                           Blob.slots[s].hash = ZeroHash)
    /\ [][entry_i' = entry_i + 1
              => \E s \in 1..Len(slots) :
                     /\ slots[s].hash = ZeroHash
                     /\ slots'[s].hash = fnv_hash(keys[entry_i'])
                     /\ \A q \in 1..Len(slots) : q # s => slots'[q] = slots[q]
         ]_vars

\* Three entries in four slots: the load is 0.75 and one slot is empty.
C24_Witness ==
    /\ table # None
    /\ Len(keys) = 3
    /\ Blob.num_slots = 4
    /\ Cardinality(Occupied) = 3

(***************************************************************************)
(* The two merge loops, tiktoken's bpe_count and HF's bpe_merge_count,     *)
(* each run to its end once it is entered.                                 *)
(***************************************************************************)
MergeLoopsInit ==
    \/ TiktokenInit /\ FrozenIdle /\ TrieIdle /\ CountersIdle
    \/ /\ HfMergeInit /\ FrozenIdle /\ TrieIdle /\ TiktokenIdle
       /\ TkCountIdle

\* A tiktoken tokenizer steps through bpe_count.
TkMergeLoop == tk_data # None /\ TiktokenNext

\* An HF tokenizer steps through bpe_merge_count.
HfMergeLoop == hf # None /\ HfMergeNext

MergeLoopsNext == TkMergeLoop \/ HfMergeLoop

\* The guards of BpePop and of HmPop.
BpePopEnabled == bpe_pc = "loop" /\ heap # <<>>
HmPopEnabled == hm_pc = "loop" /\ hm_st[1].heap # <<>>

\* The parts that are alive.
Alive(st) == {i \in DOMAIN st.alive : st.alive[i]}

\* What one pop may do: discard the entry and leave the rest, or merge:
\* one part less alive, the count one lower, at most two entries pushed.
PopOutcome(st, after) ==
    \/ /\ after = [st EXCEPT !.heap = Tail(st.heap)]
       /\ after # st
    \/ /\ after.count = st.count - 1
       /\ Cardinality(Alive(after)) = Cardinality(Alive(st)) - 1
       /\ Len(after.heap) <= (Len(st.heap) - 1) + 2

\* The loop of a piece of n parts: the count is the number of parts
\* alive, between 1 and n, and done merges are n less the count.
LoopCounts(st, n, done) ==
    /\ st.count = Cardinality(Alive(st))
    /\ st.count >= 1
    /\ st.count <= n
    /\ done = n - st.count
    /\ done <= n - 1

\* C25: every pop discards an entry and leaves the parts, or merges: the
\* live count one lower and at most two entries pushed; at most n - 1
\* merges are done; the loop ends, and what is returned is the number of
\* parts alive, between 1 and n.
C25_MergeLoopTerminates ==
    /\ [][BpePopEnabled => PopOutcome(BpeState, BpeState')]_vars
    /\ [][HmPopEnabled => PopOutcome(hm_st[1], hm_st'[1])]_vars
    /\ [](/\ (bpe_pc # "idle" /\ Len(piece) >= 2)
                 => LoopCounts(BpeState, Len(piece), Len(merges))
          /\ (bpe_pc = "done" /\ Len(piece) >= 2)
                 => bpe_result = Some(Cardinality(Alive(BpeState)))
          /\ (bpe_pc = "done" /\ Len(piece) >= 1)
                 => bpe_result[1] \in 1..Len(piece)
          /\ (hm_pc # "idle" /\ Len(hm_initial) >= 2)
                 => LoopCounts(hm_st[1], Len(hm_initial),
                               Cardinality(hm_joins))
          /\ (hm_pc = "done" /\ Len(hm_initial) >= 2)
                 => hm_single = Some(Cardinality(Alive(hm_st[1])))
          /\ (hm_pc = "done" /\ Len(hm_initial) >= 1)
                 => hm_single[1] \in 1..Len(hm_initial))
    /\ (bpe_pc = "loop") ~> (bpe_pc = "done" /\ heap = <<>>)
    /\ (hm_pc = "loop") ~> (hm_pc = "done" /\ hm_single # None)

\* "abb" is one token after two merges, a stale entry discarded between.
C25_Witness ==
    /\ bpe_pc = "done"
    /\ piece = K_abb
    /\ Len(merges) = 2
    /\ heap = <<>>
    /\ bpe_result = Some(1)

\* bpe_merge_count has merged all but one of three tokens.
C25_WitnessHf ==
    /\ hm_pc = "done"
    /\ Len(hm_initial) = 3
    /\ Cardinality(hm_joins) = 2
    /\ hm_single = Some(1)

(***************************************************************************)
(* bpe_count and bpe_merge_count side by side: the same bytes, one token   *)
(* per byte, given to both, and the two loops stepped together, pop by     *)
(* pop.                                                                    *)
(***************************************************************************)
\* Lists of merges over "a" and "b", the rank of a merge its position.
SameMergeLists ==
    {<<>>,
     <<<<<<97>>, <<98>>>>>>,
     <<<<<<97>>, <<98>>>>, <<<<97, 98>>, <<98>>>>>>,
     <<<<<<98>>, <<98>>>>, <<<<97>>, <<98, 98>>>>>>,
     <<<<<<98>>, <<98>>>>, <<<<97, 98>>, <<98>>>>>>,
     <<<<<<97>>, <<98>>>>, <<<<98>>, <<98>>>>>>}

\* The rank table of tiktoken that holds left || right for each merge.
ConcatRankTable(list, on_probe_path) ==
    LaidOut([i \in 1..Len(list) |-> AsBytes(list[i][1]) \o AsBytes(list[i][2])],
            [i \in 1..Len(list) |-> <<0, i - 1>>], on_probe_path)

SameRankTables ==
    {ConcatRankTable(l, p) : l \in SameMergeLists, p \in BOOLEAN}

\* The tokenizers whose chunks are split into one token per char.
SameTokenizers ==
    {tok \in TokenizersOf({[byte_fallback |-> FALSE, vocab |-> <<>>]},
                          {MergeTables(l, p) :
                              l \in SameMergeLists, p \in BOOLEAN}) :
        /\ tok.post_add = 0
        /\ tok.normalizer.tag = "None"
        /\ tok.pre_tokenizer = <<>>}

SameInit ==
    /\ tk_data \in {Some(t) : t \in SameRankTables}
    /\ BpeIdle
    /\ hf \in {Some(tok) : tok \in SameTokenizers}
    /\ hf_text = <<>>
    /\ hf_result = None
    /\ CallsIdle

\* What neither of the two calls writes.
OthersThanBoth ==
    <<tk_data, hfVars, frozenVars, trieVars, tkCountVars, catVars, parVars,
      selVars, hbVars, blVars, ptVars>>

\* bpe_count(pc) and bpe_merge_count of the tokens of pc, both up to the
\* `while let`.
StartBoth(pc) ==
    /\ bpe_pc = "idle"
    /\ hm_pc = "idle"
    /\ piece' = pc
    /\ hm_initial' = InitialOf(hf[1], pc)
    /\ hm_path' = "single"
    /\ hm_joins' = {}
    /\ merges' = <<>>
    /\ IF Len(pc) <= 1
       THEN /\ bpe_pc' = "done"
            /\ bpe_result' = Some(Len(pc))
            /\ UNCHANGED <<parts, next, prev, alive, gen, heap, tk_count>>
            /\ hm_pc' = "done"
            /\ hm_single' = Some(Len(pc))
            /\ hm_count' = Some(Len(pc))
            /\ hm_st' = None
       ELSE /\ bpe_pc' = "loop"
            /\ bpe_result' = None
            /\ SetBpeState(BpeLocals(RankTable, pc))
            /\ hm_pc' = "loop"
            /\ hm_single' = None
            /\ hm_count' = None
            /\ hm_st' = Some(HfLocals(hf[1].merges, InitialOf(hf[1], pc)))
    /\ UNCHANGED OthersThanBoth

\* One iteration of each `while let` whose heap is not empty.
PopBoth ==
    /\ bpe_pc = "loop"
    /\ hm_pc = "loop"
    /\ heap # <<>> \/ hm_st[1].heap # <<>>
    /\ IF heap # <<>>
       THEN LET st == PopStep(RankTable, piece, BpeState)
            IN  /\ SetBpeState(st)
                /\ merges' = IF st.count # tk_count
                             THEN Append(merges, st.parts[Head(heap)[2]])
                             ELSE merges
       ELSE UNCHANGED <<parts, next, prev, alive, gen, heap, tk_count, merges>>
    /\ IF hm_st[1].heap # <<>>
       THEN LET st == HfPopStep(hf[1].merges, TokenBuf(hm_initial),
                                Len(hm_initial), hm_st[1])
            IN  /\ hm_st' = Some(st)
                /\ hm_joins' = IF st.count # hm_st[1].count
                               THEN hm_joins
                                        \cup {hm_st[1].next[
                                                  Head(hm_st[1].heap)[2]]}
                               ELSE hm_joins
       ELSE UNCHANGED <<hm_st, hm_joins>>
    /\ UNCHANGED <<piece, bpe_pc, bpe_result, hm_initial, hm_path, hm_count,
                   hm_pc, hm_single, OthersThanBoth>>

\* Both heaps are empty: both return count.
ReturnBoth ==
    /\ bpe_pc = "loop"
    /\ hm_pc = "loop"
    /\ heap = <<>>
    /\ hm_st[1].heap = <<>>
    /\ bpe_pc' = "done"
    /\ bpe_result' = Some(tk_count)
    /\ hm_pc' = "done"
    /\ hm_single' = Some(hm_st[1].count)
    /\ hm_count' = Some(hm_st[1].count)
    /\ UNCHANGED <<piece, parts, next, prev, alive, gen, heap, tk_count,
                   merges, hm_initial, hm_path, hm_st, hm_joins,
                   OthersThanBoth>>

SameNext ==
    \/ \E pc \in Pieces : StartBoth(pc)
    \/ PopBoth
    \/ ReturnBoth

\* The pairs of adjacent parts of bpe_count's locals.
AdjacentParts(pc, st) ==
    {<<PartBytes(pc, st.parts, i), PartBytes(pc, st.parts, st.next[i])>> :
        i \in {q \in Alive(st) : st.next[q] < Len(pc)}}

\* The adjacent pairs that arise while bpe_count runs from st on.
RECURSIVE ArisingFrom(_, _, _)
ArisingFrom(data, pc, st) ==
    AdjacentParts(pc, st)
        \cup (IF st.heap = <<>> THEN {}
              ELSE ArisingFrom(data, pc, PopStep(data, pc, st)))

ArisingPairs(data, pc) ==
    IF Len(pc) <= 1 THEN {} ELSE ArisingFrom(data, pc, BpeLocals(data, pc))

\* The pair ranks of the merges table are the concatenation ranks of the
\* rank table on every adjacent pair that arises.
RanksAgree ==
    \A pr \in ArisingPairs(RankTable, piece) :
        frozen_map_get_pair(hf[1].merges, pr[1], pr[2])
            = frozen_map_get_concat(RankTable, pr[1], pr[2])

\* C26: given the same initial parts and ranks that agree on every adjacent
\* pair that can arise, bpe_merge_count and bpe_count hold the same locals
\* after every pop (parts, links, generations, heap, count), so they do the
\* same merges in the same order, and they return the same count.
C26_SameProcedureOtherLookup ==
    (bpe_pc # "idle" /\ RanksAgree) =>
        /\ Len(piece) >= 2 => hm_st = Some(BpeState)
        /\ Len(piece) >= 2 => Cardinality(hm_joins) = Len(merges)
        /\ bpe_pc = "done" <=> hm_pc = "done"
        /\ bpe_pc = "done" => bpe_result = hm_single

\* "abb" with "bb" of rank 0 and "a" + "bb" of rank 1 in both tables: both
\* merge "bb", then "a" with "bb", and return 1.
C26_Witness ==
    /\ bpe_pc = "done"
    /\ RanksAgree
    /\ piece = K_abb
    /\ merges = <<<<1, 3>>, <<0, 3>>>>
    /\ hm_joins = {1, 2}
    /\ bpe_result = Some(1)
    /\ hm_single = Some(1)

\* The ranks do not agree on a pair that arises, and the counts differ.
C26_WitnessRanksDisagree ==
    /\ bpe_pc = "done"
    /\ ~RanksAgree
    /\ bpe_result # hm_single

(***************************************************************************)
(* The blob of build_hf_frozen, byte for byte, and from_frozen reading it. *)
(***************************************************************************)
MAP_HEADER == 12
SET_HEADER == 12

\* u16 and u64 (four 16-bit limbs) as little-endian bytes.
U16Le(n) == <<n % 256, n \div 256>>
U64Le(h) == U16Le(h[1]) \o U16Le(h[2]) \o U16Le(h[3]) \o U16Le(h[4])

\* The bytes of one slot: hash, key_off, key_len and, in a map, the value
\* (a u32 kept as two limbs, the high one first).
SlotBytes(slot, slot_len) ==
    U64Le(slot.hash) \o U32Le(slot.key_off) \o U16Le(slot.key_len)
        \o (IF slot_len = SET_SLOT THEN <<>>
            ELSE IF slot.hash = ZeroHash THEN U32Le(0)
            ELSE U16Le(slot.value[2]) \o U16Le(slot.value[1]))

RECURSIVE SlotsBytes(_, _)
SlotsBytes(slots_, slot_len) ==
    IF slots_ = <<>> THEN <<>>
    ELSE SlotBytes(Head(slots_), slot_len) \o SlotsBytes(Tail(slots_), slot_len)

\* The Vec<u8> build_frozen_table returns: header, slots, string pool.
TableBytes(t, slot_len) ==
    U32Le(t.num_slots) \o U32Le(t.num_entries) \o U32Le(t.string_pool_len)
        \o SlotsBytes(t.slots, slot_len) \o t.string_pool

RECURSIVE CodepointBytes(_)
CodepointBytes(cps) ==
    IF cps = <<>> THEN <<>> ELSE U32Le(Head(cps)) \o CodepointBytes(Tail(cps))

\* The blob build_hf_frozen assembles for a file.
BlobBytes(js) ==
    <<IF js.byte_fallback THEN 1 ELSE 0>>
        \o U32Le(js.post_add)
        \o serialize_normalizer(js.normalizer)
        \o serialize_pre_tokenizer(js.pre_tokenizer)
        \o U32Le(Len(js.vocab))
        \o CodepointBytes(js.vocab)
        \o TableBytes(MergeTables(js.merges, FALSE).merges, MAP_SLOT)
        \o TableBytes(MergeTables(js.merges, FALSE).merge_left, SET_SLOT)
        \o TableBytes(MergeTables(js.merges, FALSE).merge_right, SET_SLOT)

\* frozen::read_u32
read_u32(data, off) ==
    data[off + 1] + (256 * data[off + 2]) + (65536 * data[off + 3])
        + (16777216 * data[off + 4])

\* frozen_map_byte_len and frozen_set_byte_len of the table at off.
frozen_map_byte_len(data, off) ==
    MAP_HEADER + (read_u32(data, off) * MAP_SLOT) + read_u32(data, off + 8)
frozen_set_byte_len(data, off) ==
    SET_HEADER + (read_u32(data, off) * SET_SLOT) + read_u32(data, off + 8)

\* read_length_prefixed_str: the string and the bytes consumed (the bytes
\* of a &str the builder wrote are UTF-8).
read_length_prefixed_str(data, off) ==
    [str |-> Slice(data, off + 4, off + 4 + read_u32(data, off)),
     len |-> 4 + read_u32(data, off)]

\* fancy_regex::Regex::new(&pattern) is Ok: "(" is a pattern it rejects.
PatternCompiles(pattern) == pattern # <<40>>

\* A deserializer's Ok((value, len)) and Err(..).
Ok(val, len) == [ok |-> TRUE, val |-> val, len |-> len]
Err(msg) == [ok |-> FALSE, err |-> msg]

RECURSIVE deserialize_normalizer(_, _)
\* `for _ in 0..todo { .. norms.push(n) }`: the normalizers read and the
\* position after them, or the first Err.
RECURSIVE DeserializeEach(_, _, _, _)
DeserializeEach(data, at, todo, norms) ==
    IF todo = 0 THEN Ok(norms, at)
    ELSE LET r == deserialize_normalizer(data, at)
         IN  IF ~r.ok THEN r
             ELSE DeserializeEach(data, at + r.len, todo - 1,
                                  Append(norms, r.val))

deserialize_normalizer(data, off) ==
    LET tag == data[off + 1]
        at == off + 1
    IN  CASE tag = NORM_NONE -> Ok([tag |-> "None"], 1)
          [] tag = NORM_REPLACE ->
                 LET p == read_length_prefixed_str(data, at)
                     c == read_length_prefixed_str(data, at + p.len)
                 IN  Ok([tag |-> "Replace", pattern |-> p.str,
                         content |-> c.str],
                        (at + p.len + c.len) - off)
          [] tag = NORM_PREPEND ->
                 LET p == read_length_prefixed_str(data, at)
                 IN  Ok([tag |-> "Prepend", prefix |-> p.str],
                        (at + p.len) - off)
          [] tag = NORM_NFC -> Ok([tag |-> "Nfc"], 1)
          [] tag = NORM_SEQUENCE ->
                 LET r == DeserializeEach(data, at + 4, read_u32(data, at),
                                          <<>>)
                 IN  IF ~r.ok THEN r
                     ELSE IF r.val = <<>>
                     THEN Ok([tag |-> "None"], r.len - off)
                     ELSE Ok([tag |-> "Sequence", norms |-> r.val],
                             r.len - off)
          [] OTHER -> Err("unknown normalizer tag")

\* The loop of deserialize_pre_tokenizer over the steps.
RECURSIVE DeserializeSteps(_, _, _, _)
DeserializeSteps(data, at, todo, steps) ==
    IF todo = 0 THEN Ok(steps, at)
    ELSE LET step_tag == data[at + 1]
         IN  IF step_tag = STEP_SPLIT
             THEN LET p == read_length_prefixed_str(data, at + 1)
                  IN  IF ~PatternCompiles(p.str)
                      THEN Err("invalid pre-tokenizer regex")
                      ELSE DeserializeSteps(
                               data, at + 1 + p.len, todo - 1,
                               Append(steps,
                                      [tag |-> "Split", pattern |-> p.str]))
             ELSE IF step_tag = STEP_BYTE_LEVEL
             THEN DeserializeSteps(data, at + 1, todo - 1,
                                   Append(steps, [tag |-> "ByteLevel"]))
             ELSE Err("unknown pre-tokenizer step tag")

\* <<>> is PreTokenizer::None, else the steps of the Sequence.
deserialize_pre_tokenizer(data, off) ==
    LET step_count == read_u32(data, off)
    IN  IF step_count = 0 THEN Ok(<<>>, 4)
        ELSE LET r == DeserializeSteps(data, off + 4, step_count, <<>>)
             IN  IF ~r.ok THEN r ELSE Ok(r.val, r.len - off)

\* HfTokenizer::from_frozen: the fields of the HfTokenizer, or the Err.
hf_from_frozen(data) ==
    LET byte_fallback == data[1] # 0
        post_add == read_u32(data, 1)
        nm == deserialize_normalizer(data, 5)
    IN  IF ~nm.ok THEN nm
        ELSE LET pt == deserialize_pre_tokenizer(data, 5 + nm.len)
             IN  IF ~pt.ok THEN pt
                 ELSE LET vocab_count == read_u32(data, 5 + nm.len + pt.len)
                          vocab_off == 5 + nm.len + pt.len + 4
                          merges_off == vocab_off + (vocab_count * 4)
                          merge_left_off ==
                              merges_off + frozen_map_byte_len(data, merges_off)
                          merge_right_off ==
                              merge_left_off
                                  + frozen_set_byte_len(data, merge_left_off)
                      IN  [ok |-> TRUE,
                           byte_fallback |-> byte_fallback,
                           post_add |-> post_add,
                           normalizer |-> nm.val,
                           pre_tokenizer |-> pt.val,
                           vocab_off |-> vocab_off,
                           vocab_count |-> vocab_count,
                           merges_off |-> merges_off,
                           merge_left_off |-> merge_left_off,
                           merge_right_off |-> merge_right_off]

\* The normalizers of a file, a Sequence inside a Sequence and an empty
\* Sequence among them.
RtNormalizers ==
    JsonNormalizers
        \cup {[type |-> "Sequence", normalizers |-> <<>>],
              [type |-> "Sequence",
               normalizers |->
                   <<[type |-> "NFC"],
                     [type |-> "Sequence",
                      normalizers |-> <<[type |-> "Prepend",
                                          prepend |-> <<95>>]>>],
                     [type |-> "Sequence", normalizers |-> <<>>]>>]}

\* The pre-tokenizers of a file; "(" is a pattern that does not compile.
RtPlainPreTokenizers ==
    PlainPreTokenizers \cup {[type |-> "Split", pattern |-> <<40>>],
                             [type |-> "Split", pattern |-> <<>>]}
RtPreTokenizers ==
    {Null} \cup RtPlainPreTokenizers
        \cup {[type |-> "Sequence", pretokenizers |-> ps] :
                 ps \in SeqUpTo(RtPlainPreTokenizers, MaxSteps)}

\* model.byte_fallback, the todo of the post-processor's special tokens,
\* the single-char keys of model.vocab and model.merges.
RtModels ==
    {[byte_fallback |-> FALSE, post_add |-> 0, vocab |-> <<>>,
      merges |-> NoMerges],
     [byte_fallback |-> TRUE, post_add |-> MaxPostAdd,
      vocab |-> <<97, LowerOneEighth>>, merges |-> LetterMerges],
     [byte_fallback |-> TRUE, post_add |-> 0, vocab |-> <<>>,
      merges |-> MarkerMerges]}

\* The files: every normalizer with one pre-tokenizer, every
\* pre-tokenizer with one normalizer.
RtJsons ==
    {[byte_fallback |-> md.byte_fallback, post_add |-> md.post_add,
      vocab |-> md.vocab, merges |-> md.merges, normalizer |-> nm,
      pre_tokenizer |-> pt] :
        md \in RtModels,
        <<nm, pt>> \in (RtNormalizers \X {[type |-> "ByteLevel"]})
                           \cup ({[type |-> "NFC"]} \X RtPreTokenizers)}

RtInit ==
    /\ hb_json \in {Some(js) : js \in RtJsons}
    /\ hb_blob = None
    /\ hb_pc = "start"
    /\ hf = None
    /\ hf_text = <<>>
    /\ hf_result = None

\* build_hf_frozen returns the blob; build_frozen_models writes it.
BuildBlob ==
    /\ hb_pc = "start"
    /\ hb_blob' = Some(BlobBytes(hb_json[1]))
    /\ hb_pc' = "written"
    /\ UNCHANGED <<hb_json, hfVars, frozenVars, trieVars, tiktokenVars,
                   tkCountVars, hfMergeVars, catVars, parVars, selVars,
                   blVars, ptVars>>

\* HfTokenizer::from_frozen(data) on the blob: the tokenizer, or the Err
\* main exits with.
FromFrozen ==
    /\ hb_pc = "written"
    /\ IF hf_from_frozen(hb_blob[1]).ok
       THEN hf' = Some(hf_from_frozen(hb_blob[1])) /\ hb_pc' = "loaded"
       ELSE hf' = None /\ hb_pc' = "load failed"
    /\ UNCHANGED <<hb_json, hb_blob, hf_text, hf_result, frozenVars, trieVars,
                   tiktokenVars, tkCountVars, hfMergeVars, catVars, parVars,
                   selVars, blVars, ptVars>>

RtNext == BuildBlob \/ FromFrozen

\* The normalizer tree and the step list the builder serializes for a
\* file: what has no arm is None, or is left out of the steps.
RECURSIVE TreeOf(_)
TreeOf(val) ==
    IF val = Null THEN [tag |-> "None"]
    ELSE CASE val.type = "Replace" ->
                  [tag |-> "Replace", pattern |-> val.pattern,
                   content |-> val.content]
           [] val.type = "Prepend" -> [tag |-> "Prepend", prefix |-> val.prepend]
           [] val.type = "NFC" -> [tag |-> "Nfc"]
           [] val.type = "Sequence" ->
                  IF val.normalizers = <<>> THEN [tag |-> "None"]
                  ELSE [tag |-> "Sequence",
                        norms |-> [i \in 1..Len(val.normalizers) |->
                                      TreeOf(val.normalizers[i])]]
           [] OTHER -> [tag |-> "None"]

StepOf(step) ==
    IF step.type = "Split" THEN [tag |-> "Split", pattern |-> step.pattern]
    ELSE [tag |-> "ByteLevel"]

StepsOf(val) ==
    IF val = Null THEN <<>>
    ELSE LET steps == IF val.type = "Sequence" THEN val.pretokenizers
                      ELSE <<val>>
             valid == SelectSeq(steps, IsValidStep)
         IN  [i \in 1..Len(valid) |-> StepOf(valid[i])]

\* The offset of each section of the blob, from the lengths of what the
\* builder wrote before it.
SectionOffsets(js) ==
    LET vocab_count_at == 5 + Len(serialize_normalizer(js.normalizer))
                              + Len(serialize_pre_tokenizer(js.pre_tokenizer))
        tables == MergeTables(js.merges, FALSE)
        merges_at == vocab_count_at + 4 + (4 * Len(js.vocab))
        left_at == merges_at + Len(TableBytes(tables.merges, MAP_SLOT))
        right_at == left_at + Len(TableBytes(tables.merge_left, SET_SLOT))
    IN  [vocab |-> vocab_count_at + 4, merges |-> merges_at,
         left |-> left_at, right |-> right_at,
         end |-> right_at + Len(TableBytes(tables.merge_right, SET_SLOT))]

\* from_frozen has given back what the builder wrote, each section where
\* the builder put it.
RoundTrip ==
    /\ hb_pc = "loaded"
    /\ hf # None
    /\ hf[1].byte_fallback = hb_json[1].byte_fallback
    /\ hf[1].post_add = hb_json[1].post_add
    /\ hf[1].normalizer = TreeOf(hb_json[1].normalizer)
    /\ hf[1].pre_tokenizer = StepsOf(hb_json[1].pre_tokenizer)
    /\ hf[1].vocab_count = Len(hb_json[1].vocab)
    /\ hf[1].vocab_off = SectionOffsets(hb_json[1]).vocab
    /\ hf[1].merges_off = SectionOffsets(hb_json[1]).merges
    /\ hf[1].merge_left_off = SectionOffsets(hb_json[1]).left
    /\ hf[1].merge_right_off = SectionOffsets(hb_json[1]).right
    /\ SectionOffsets(hb_json[1]).end = Len(hb_blob[1])
    /\ Slice(hb_blob[1], hf[1].vocab_off, hf[1].merges_off)
           = CodepointBytes(hb_json[1].vocab)
    /\ Slice(hb_blob[1], hf[1].merges_off, hf[1].merge_left_off)
           = TableBytes(MergeTables(hb_json[1].merges, FALSE).merges, MAP_SLOT)

\* Every Split pattern of the file's pre-tokenizer compiles.
PatternsCompile(js) ==
    \A i \in 1..Len(StepsOf(js.pre_tokenizer)) :
        StepsOf(js.pre_tokenizer)[i].tag = "Split"
            => PatternCompiles(StepsOf(js.pre_tokenizer)[i].pattern)

\* C27: for every normalizer tree and step list the builder serializes,
\* from_frozen on the builder's blob gives back the byte-fallback flag, the
\* special-token todo, the normalizer tree and the step list, and places
\* the code points and the three tables where the builder put them.
C27_FromFrozenReadsWhatTheBuilderWrote ==
    hb_pc \in {"loaded", "load failed"} => RoundTrip

\* The same for the files whose Split patterns compile.
RoundTripWhenPatternsCompile ==
    (hb_pc \in {"loaded", "load failed"} /\ PatternsCompile(hb_json[1]))
        => RoundTrip

\* A Sequence inside a Sequence and the tables found behind it.
RoundTripOfNestedSequence ==
    /\ RoundTrip
    /\ hf[1].normalizer.tag = "Sequence"
    /\ Len(hf[1].normalizer.norms) = 3
    /\ hf[1].normalizer.norms[2].tag = "Sequence"
    /\ hf[1].vocab_count = 2

(***************************************************************************)
(* The windows bpe_count_chunked hands to bpe_merge_count.                 *)
(***************************************************************************)
\* The loop of bpe_count_chunked that scans on after a scan without a cut.
RECURSIVE ChunkedWindowsScanningOn(_, _, _, _, _)
ChunkedWindowsScanningOn(tok, toks, i, start, windows) ==
    LET n == Len(toks)
        j == ScanCut(tok, toks, i, Min(n, i + TargetChunk))
    IN  IF i < n /\ j # NoMatch
        THEN ChunkedWindowsScanningOn(tok, toks, j + TargetChunk, j,
                                      Append(windows, <<start, j>>))
        ELSE IF i < n
        THEN ChunkedWindowsScanningOn(tok, toks, i + TargetChunk, start,
                                      windows)
        ELSE IF start < n THEN Append(windows, <<start, n>>)
        ELSE windows

\* The loop of bpe_count_chunked, keeping the ranges start..j and start..
\* of its calls of bpe_merge_count (tokens numbered from 0, end excluded).
RECURSIVE ChunkedWindows(_, _, _, _, _)
ChunkedWindows(tok, toks, i, start, windows) ==
    LET n == Len(toks)
        j == ScanCut(tok, toks, i, Min(n, i + TargetChunk))
    IN  IF i < n /\ j # NoMatch
        THEN ChunkedWindows(tok, toks, j + TargetChunk, j,
                            Append(windows, <<start, j>>))
        ELSE IF start < n THEN Append(windows, <<start, n>>)
        ELSE windows

\* The windows of bpe_count_chunked(tokens).
WindowsOf(tok, toks) ==
    ChunkedWindows(tok, toks, Min(TargetChunk, Max(Len(toks) - 1, 0)), 0, <<>>)

\* `total += self.bpe_merge_count(..)` over the windows.
RECURSIVE SumWindows(_, _, _)
SumWindows(tok, toks, windows) ==
    IF windows = <<>> THEN 0
    ELSE bpe_merge_count(tok, Slice(toks, Head(windows)[1], Head(windows)[2]))
             + SumWindows(tok, toks, Tail(windows))

\* model.merges with a token that is both a left and a right side.
DoubledMerges == <<<<<<97>>, <<97>>>>>>
BothLetterMerges == <<<<<<97>>, <<97>>>>, <<<<98>>, <<98>>>>>>

\* Tokenizers that split a chunk into one token per char.
WindowTokenizers ==
    {tok \in TokenizersOf({[byte_fallback |-> FALSE, vocab |-> <<>>]},
                          {MergeTables(l, p) :
                              l \in {DoubledMerges, BothLetterMerges,
                                     LetterMerges},
                              p \in BOOLEAN}) :
        /\ tok.post_add = 0
        /\ tok.normalizer.tag = "None"
        /\ tok.pre_tokenizer = <<>>}

WindowsInit ==
    /\ hf \in {Some(tok) : tok \in WindowTokenizers}
    /\ hf_text = <<>>
    /\ hf_result = None
    /\ CallsIdle

\* The position the scan after the k-th window starts at (the first scan
\* for k = 0).
ScanStart(toks, windows, k) ==
    IF k = 0 THEN Min(TargetChunk, Max(Len(toks) - 1, 0))
    ELSE windows[k][2] + TargetChunk

\* The test of bpe_count_chunked holds nowhere in the scan from i.
ScanFindsNoCut(tok, toks, i) ==
    \A j \in i..(Min(Len(toks), i + TargetChunk) - 1) : ~IsCut(tok, toks, j)

\* C28: on the windowed path the windows handed to bpe_merge_count are
\* consecutive and cover the initial tokens once, without overlap or gap;
\* a window closed at a cut holds at least TargetChunk (256) tokens and
\* ends at the first position of its scan where the test holds; the scan
\* after the last cut finds no cut, and all that is left is then one
\* window, whatever cuts lie beyond that scan; the count returned is the
\* sum of bpe_merge_count over the windows.
C28_WindowsCoverTheTokensOnce ==
    (hm_pc # "idle" /\ hm_path = "windowed") =>
        LET toks == hm_initial
            w == WindowsOf(hf[1], toks)
        IN  /\ Len(w) >= 1
            /\ w[1][1] = 0
            /\ w[Len(w)][2] = Len(toks)
            /\ \A k \in 1..Len(w) : w[k][1] < w[k][2]
            /\ \A k \in 1..(Len(w) - 1) :
                   /\ w[k][2] = w[k + 1][1]
                   /\ w[k][2] - w[k][1] >= TargetChunk
                   /\ IsCut(hf[1], toks, w[k][2])
                   /\ w[k][2] >= ScanStart(toks, w, k - 1)
                   /\ w[k][2] < ScanStart(toks, w, k - 1) + TargetChunk
                   /\ \A j \in ScanStart(toks, w, k - 1)..(w[k][2] - 1) :
                          ~IsCut(hf[1], toks, j)
            /\ ScanFindsNoCut(hf[1], toks, ScanStart(toks, w, Len(w) - 1))
            /\ hm_count = Some(SumWindows(hf[1], toks, w))

\* A scan found no cut while a later position passes the test: the
\* remainder, that position inside it, is one window.
C28_Witness ==
    /\ hm_pc = "done"
    /\ hm_path = "windowed"
    /\ WindowsOf(hf[1], hm_initial) = <<<<0, Len(hm_initial)>>>>
    /\ \E j \in 1..(Len(hm_initial) - 1) : IsCut(hf[1], hm_initial, j)

\* Two windows, the first closed at a cut.
C28_WitnessCut ==
    /\ hm_pc = "done"
    /\ hm_path = "windowed"
    /\ Len(WindowsOf(hf[1], hm_initial)) = 2
    /\ hm_count[1] < Len(hm_initial)

(***************************************************************************)
(* The linked list of parts while the merge loop of bpe_count runs.        *)
(***************************************************************************)
\* The indices reached from x by following next, up to the end n.
RECURSIVE ChainFrom(_, _, _)
ChainFrom(nx, x, n) ==
    IF x >= n THEN <<>> ELSE <<x>> \o ChainFrom(nx, nx[x], n)

\* The parts of the chain hold consecutive ranges from 0 to n.
RECURSIVE Tiles(_, _, _, _)
Tiles(ps, chain, from, n) ==
    IF chain = <<>> THEN from = n
    ELSE /\ ps[Head(chain)][1] = from
         /\ ps[Head(chain)][2] > from
         /\ Tiles(ps, Tail(chain), ps[Head(chain)][2], n)

\* The list of the alive parts as the claim states it.
ListIsWellFormed(st, n) ==
    LET chain == ChainFrom(st.next, 0, n)
    IN  /\ st.alive[0]
        /\ {chain[x] : x \in 1..Len(chain)} = Alive(st)
        /\ Tiles(st.parts, chain, 0, n)
        /\ st.prev[0] = USIZE_MAX
        /\ \A i \in Alive(st) :
               /\ st.next[i] < n => st.prev[st.next[i]] = i
               /\ i # 0 => /\ st.prev[i] \in Alive(st)
                           /\ st.next[st.prev[i]] = i
        /\ st.count = Cardinality(Alive(st))

\* A pop leaves every generation as it was, but for the left index of a
\* merge, which grows by one.
GenerationsGrowOnlyOnTheLeft ==
    BpePopEnabled =>
        \A x \in 0..(Len(piece) - 1) :
            /\ gen'[x] >= gen[x]
            /\ gen'[x] # gen[x] =>
                   /\ x = Head(heap)[2]
                   /\ gen'[x] = gen[x] + 1
                   /\ tk_count' = tk_count - 1
                   /\ alive[next[x]] /\ ~alive'[next[x]]
                   /\ parts'[x] = <<parts[x][1], parts[next[x]][2]>>

\* C29: after any number of iterations of the merge loop the alive parts,
\* followed in next-order from index 0, hold consecutive ranges that cover
\* the piece; prev is the inverse of next on the alive parts; index 0 is
\* alive; count is the number of alive parts; and a generation never
\* decreases and grows only for the left index of a merge.
C29_PartsListStaysWellFormed ==
    /\ [](bpe_pc \in {"loop", "done"} /\ Len(piece) >= 2
             => ListIsWellFormed(BpeState, Len(piece)))
    /\ [][GenerationsGrowOnlyOnTheLeft]_vars

\* Two merges have been made, a part in the middle is dead, and the part
\* behind it points back over it.
C29_Witness ==
    /\ bpe_pc = "loop"
    /\ Len(merges) >= 2
    /\ \E j \in 1..(Len(piece) - 2) :
           /\ ~alive[j]
           /\ alive[j + 1]
           /\ prev[j + 1] < j

(***************************************************************************)
(* The heap entries of the pairs that can still be merged.                 *)
(***************************************************************************)
\* The alive parts that have a right neighbour.
WithRightNeighbour(st, n) == {i \in Alive(st) : st.next[i] < n}

\* The heap holds an entry of part i with its generation of now.
HasLiveEntry(st, i) ==
    \E e \in 1..Len(st.heap) :
        st.heap[e][2] = i /\ st.heap[e][3] = st.gen[i]

\* Part i and its right neighbour, joined, are a key of the rank table.
IsKnownMerge(t, pc, st, i) ==
    (PartBytes(pc, st.parts, i) \o PartBytes(pc, st.parts, st.next[i]))
        \in StoredKeys(t)

\* C30: when the merge loop ends no two adjacent alive parts are a known
\* merge, and while it runs every pair of adjacent alive parts that is a
\* known merge has a live entry in the heap.
C30_NoKnownMergeIsLeft ==
    /\ (bpe_pc = "done" /\ Len(piece) >= 2) =>
           \A i \in WithRightNeighbour(BpeState, Len(piece)) :
               ~IsKnownMerge(RankTable, piece, BpeState, i)
    /\ bpe_pc = "loop" =>
           \A i \in WithRightNeighbour(BpeState, Len(piece)) :
               IsKnownMerge(RankTable, piece, BpeState, i)
                   => HasLiveEntry(BpeState, i)

\* The same for the pairs the lookup of the loop finds: such a pair has
\* the entry (rank, i, gen[i]) in the heap, and none is left at the end.
NoFoundMergeIsLeft ==
    /\ (bpe_pc = "done" /\ Len(piece) >= 2) =>
           \A i \in WithRightNeighbour(BpeState, Len(piece)) :
               tk_pair_rank(RankTable, piece, parts, next, i) = None
    /\ bpe_pc = "loop" =>
           \A i \in WithRightNeighbour(BpeState, Len(piece)) :
               LET r == tk_pair_rank(RankTable, piece, parts, next, i)
               IN  r # None =>
                       \E e \in 1..Len(heap) : heap[e] = <<r[1], i, gen[i]>>

\* The same for bpe_merge_count.
NoFoundPairIsLeft ==
    (hm_pc # "idle" /\ hm_st # None) =>
        \A i \in WithRightNeighbour(hm_st[1], Len(hm_initial)) :
            LET r == frozen_map_get_pair(
                         hf[1].merges,
                         PartBytes(TokenBuf(hm_initial), hm_st[1].parts, i),
                         PartBytes(TokenBuf(hm_initial), hm_st[1].parts,
                                   hm_st[1].next[i]))
            IN  r # None =>
                    /\ hm_pc = "loop"
                    /\ \E e \in 1..Len(hm_st[1].heap) :
                           hm_st[1].heap[e] = <<r[1], i, hm_st[1].gen[i]>>

\* The heap holds a stale entry next to the entry of a pair that can be
\* merged.
LiveEntryBesideStaleOne ==
    /\ bpe_pc = "loop"
    /\ Len(merges) >= 1
    /\ \E e \in 1..Len(heap) :
           ~alive[heap[e][2]] \/ gen[heap[e][2]] # heap[e][3]
    /\ \E i \in WithRightNeighbour(BpeState, Len(piece)) :
           tk_pair_rank(RankTable, piece, parts, next, i) # None

\* Every key of the table is found by the lookup.
EveryStoredKeyIsFound(t) ==
    \A key \in StoredKeys(t) : frozen_map_get(t, key) # None

\* No known merge is left, and none loses its entry, for the tables whose
\* keys the lookup finds.
NoKnownMergeIsLeftWhenKeysAreFound ==
    (tk_data # None /\ EveryStoredKeyIsFound(RankTable))
        => C30_NoKnownMergeIsLeft

(***************************************************************************)
(* The specifications, one per component.                                  *)
(***************************************************************************)
InitFrozen == FrozenInit /\ TrieIdle /\ TiktokenIdle /\ CountersIdle
SpecFrozen == InitFrozen /\ [][FrozenNext]_vars

InitTrie == TrieInit /\ FrozenIdle /\ TiktokenIdle /\ CountersIdle
SpecTrie == InitTrie /\ [][TrieNext]_vars

InitCorrupt == CorruptInit /\ FrozenIdle /\ TiktokenIdle /\ CountersIdle
SpecCorrupt == InitCorrupt /\ [][CorruptNext]_vars

InitTiktoken == TiktokenInit /\ FrozenIdle /\ TrieIdle /\ CountersIdle
SpecTiktoken == InitTiktoken /\ [][TiktokenNext]_vars

InitHfMerge == HfMergeInit /\ FrozenIdle /\ TrieIdle /\ TiktokenIdle /\ TkCountIdle
SpecHfMerge == InitHfMerge /\ [][HfMergeNext]_vars

InitFallback == FallbackInit /\ FrozenIdle /\ TrieIdle /\ TiktokenIdle /\ TkCountIdle
SpecFallback == InitFallback /\ [][FallbackNext]_vars

InitConcat == ConcatInit /\ FrozenIdle /\ TiktokenIdle /\ CountersIdle
SpecConcat == InitConcat /\ [][ConcatNext]_vars

InitPar == ParInit /\ FrozenIdle /\ TrieIdle /\ TkCountIdle /\ HfIdle
SpecPar == InitPar /\ [][ParNext]_vars

InitSel ==
    /\ SelInit /\ FrozenIdle /\ TrieIdle /\ TiktokenIdle /\ TkCountIdle
    /\ HfIdle /\ HfMergeIdle /\ CatIdle /\ ParIdle /\ HbIdle /\ BlIdle /\ PtIdle
SpecSel == InitSel /\ [][SelNext]_vars

InitHb ==
    /\ HbInit /\ FrozenIdle /\ TrieIdle /\ TiktokenIdle /\ TkCountIdle
    /\ HfIdle /\ HfMergeIdle /\ CatIdle /\ ParIdle /\ SelIdle /\ BlIdle /\ PtIdle
SpecHb == InitHb /\ [][HbNext]_vars

InitBl ==
    /\ BlInit /\ FrozenIdle /\ TrieIdle /\ TiktokenIdle /\ TkCountIdle
    /\ HfIdle /\ HfMergeIdle /\ CatIdle /\ ParIdle /\ SelIdle /\ HbIdle /\ PtIdle
SpecBl == InitBl /\ [][BlNext]_vars

InitPt ==
    /\ PtInit /\ FrozenIdle /\ TrieIdle /\ TiktokenIdle /\ TkCountIdle
    /\ HfIdle /\ HfMergeIdle /\ CatIdle /\ ParIdle /\ SelIdle /\ HbIdle
    /\ BlIdle
SpecPt == InitPt /\ [][PtNext]_vars

\* A call that has entered its loop runs on: weak fairness of the pops and
\* of the returns.  For the pops ENABLED is written out as the guard of the
\* action (a pop always changes the heap or the count, and from a state
\* where a pop is enabled every step is a pop).
InitMergeLoops == MergeLoopsInit
SpecMergeLoops ==
    /\ InitMergeLoops
    /\ [][MergeLoopsNext]_vars
    /\ ([]<>(~BpePopEnabled) \/ []<><<BpePopEnabled>>_vars)
    /\ WF_vars(BpeReturn)
    /\ ([]<>(~HmPopEnabled) \/ []<><<HmPopEnabled>>_vars)
    /\ WF_vars(HmReturn)

InitSame == SameInit /\ FrozenIdle /\ TrieIdle /\ TkCountIdle
SpecSame == InitSame /\ [][SameNext]_vars

InitRt ==
    /\ RtInit /\ FrozenIdle /\ TrieIdle /\ TiktokenIdle /\ TkCountIdle
    /\ HfMergeIdle /\ CatIdle /\ ParIdle /\ SelIdle /\ BlIdle /\ PtIdle
SpecRt == InitRt /\ [][RtNext]_vars

InitWindows ==
    /\ WindowsInit /\ FrozenIdle /\ TrieIdle /\ TiktokenIdle /\ TkCountIdle
SpecWindows == InitWindows /\ [][HfMergeNext]_vars

InitCounters == CountersInit
SpecCounters == InitCounters /\ [][CountersNext]_vars

====
